---- MODULE Spec2Model ----
(***************************************************************************)
(* ocm-sandbox: the wrap command (ocm_sandbox/commands/wrap.py) and the    *)
(* load-images command (ocm_sandbox/commands/load_images.py).              *)
(*                                                                         *)
(* A manifest is a YAML document.  A mapping document is a record holding  *)
(* the keys it has (a key the document lacks is absent from the record,    *)
(* and read with Get as dict.get reads it).  A document that is no mapping *)
(* (a scalar) is the record [scalar |-> value].  The field yamlBytes of a  *)
(* document stands for the part of it the tool passes through unread: it   *)
(* is the byte length of the document's yaml.dump text.  The synthesized   *)
(* RBAC manifests carry no yamlBytes: their size is computed from the text *)
(* yaml.dump writes for them.                                              *)
(***************************************************************************)
EXTENDS Integers, Sequences, FiniteSets, TLC

VARIABLES
    workload,         \* split_manifest_workload: the argument list
    max_size,         \* split_manifest_workload: the size ceiling
    split_workloads,  \* split_manifest_workload: the returned partitions
    helm_templates,   \* generate_mwrs_files: the caller's manifest list
    name,             \* generate_mwrs_files: base name of the MWRS
    namespace,        \* generate_mwrs_files: namespace of the MWRS
    placement,        \* generate_mwrs_files: placement name
    output_prefix,    \* generate_mwrs_files: output file prefix
    hash_seed,        \* the interpreter's string hash seed of the current run
    files,            \* the file system: the sequence of files written
    output_files,     \* generate_mwrs_files: the returned file names
    input_docs,       \* the manifests of the rendered input, as first loaded
    runs,             \* history: one record per generate_mwrs_files call
    pc,               \* position of the caller
    arg,              \* the argument of a function called on its own
    result,           \* what that call returned
    image,            \* load_image_with_workaround: the image to load
    target_cluster,   \* load_image_with_workaround: the cluster to load into
    platform,         \* load_image_with_workaround: the target platform
    load_pc,          \* load_image_with_workaround: the strategy to try next
    load_result,      \* load_image_with_workaround: the returned value
    attempts,         \* history: the strategies started by this call, with results
    commands,         \* history: the commands this call gave to run_command
    tmp_files,        \* the file system: the temporary files that exist
    yaml_available,   \* YAML_AVAILABLE
    config_file,      \* the file at config_path
    cluster_name,     \* load_images_from_config: the default cluster
    kind_clusters,    \* the clusters `kind get clusters` lists
    config_pc,        \* load_images_from_config: position
    images,           \* load_images_from_config: config["images"]
    item_index,       \* load_images_from_config: index of the next item
    loaded_count,     \* load_images_from_config: loaded_count
    failed_count,     \* load_images_from_config: failed_count
    skipped_count,    \* history: the entries skipped as invalid
    cluster_checks,   \* history: the clusters given to check_kind_cluster
    loads,            \* history: the load_image_with_workaround calls, with results
    config_result,    \* load_images_from_config: <<the returned value>>
    which_kind,       \* `which kind` finds the executable
    which_docker,     \* `which docker` finds the executable
    input_exists,     \* wrap: the file at input_file exists
    exit_code         \* <<the exit code of the command>>

wrapVars == <<workload, max_size, split_workloads, helm_templates, name, namespace,
              placement, output_prefix, hash_seed, files, output_files, input_docs,
              runs>>

callVars == <<arg, result>>

loadVars == <<image, target_cluster, platform, load_pc, load_result, attempts, commands,
              tmp_files>>

configVars == <<yaml_available, config_file, cluster_name, kind_clusters, config_pc,
                images, item_index, loaded_count, failed_count, skipped_count,
                cluster_checks, loads, config_result>>

cliVars == <<which_kind, which_docker, input_exists, exit_code>>

otherVars == <<callVars, loadVars, configVars, cliVars>>

nonCallVars == <<wrapVars, loadVars, configVars, cliVars>>

vars == <<wrapVars, pc, otherVars>>

\* no function is called on its own
NoCall == arg = <<>> /\ result = <<>>

\* load_image_with_workaround is not called
NoLoadCall ==
    /\ image = "" /\ target_cluster = "" /\ platform = ""
    /\ load_pc = "idle" /\ load_result = "<None>"
    /\ attempts = <<>> /\ commands = <<>> /\ tmp_files = {}

\* load_images_from_config is not called
NoConfigCall ==
    /\ yaml_available = TRUE /\ config_file = <<>> /\ cluster_name = ""
    /\ kind_clusters = {} /\ config_pc = "idle" /\ images = <<>> /\ item_index = 0
    /\ loaded_count = 0 /\ failed_count = 0 /\ skipped_count = 0
    /\ cluster_checks = <<>> /\ loads = <<>> /\ config_result = <<>>

\* no command of the CLI is run
NoCliCall ==
    /\ which_kind = TRUE /\ which_docker = TRUE /\ input_exists = TRUE
    /\ exit_code = <<>>

NoOtherCalls == NoCall /\ NoLoadCall /\ NoConfigCall /\ NoCliCall

(***************************************************************************)
(* Bounds of the model.                                                    *)
(***************************************************************************)
MaxWorkloadLen == 3     \* longest list given to split_manifest_workload
MaxManifestBytes == 3   \* largest yaml size of a manifest in SpecSplit
MaxMaxSize == 4         \* largest max_size given in SpecSplit
MaxTemplates == 3       \* longest manifest list given to generate_mwrs_files
MaxRbacTemplates == 3   \* longest manifest list given to extract_crd_resources
MaxImages == 2          \* longest images list of a configuration file
MaxCliImages == 2       \* most images given on the command line
SmallBytes == 200       \* yaml size of a small manifest

(***************************************************************************)
(* Python values.                                                          *)
(***************************************************************************)
\* None where the code expects a string (metadata.name, metadata.namespace)
None == "<None>"

\* None where the code expects a mapping (Optional[Dict] results)
NoDict == [none |-> TRUE]

\* the empty mapping {}
EmptyDict == <<>>

\* dict.get(key, default)
Get(d, key, default) == IF key \in DOMAIN d THEN d[key] ELSE default

\* Truthy with the empty string taken as true
TruthyUnlessNone(v) == v # None

\* Python truthiness of a string or None
Truthy(v) == v # None /\ v # ""

\* isinstance(m, dict)
IsDict(m) == "scalar" \notin DOMAIN m

RECURSIVE SumSeq(_)
SumSeq(s) == IF s = <<>> THEN 0 ELSE Head(s) + SumSeq(Tail(s))

RECURSIVE Concat(_)
Concat(ss) == IF ss = <<>> THEN <<>> ELSE Head(ss) \o Concat(Tail(ss))

MAX_FILE_SIZE == 256 * 1024

(***************************************************************************)
(* Text helpers: str.lower and "/" in s, s.split("/", 1).                  *)
(***************************************************************************)
\* str.lower on one character
LowerTable ==
    [A |-> "a", B |-> "b", C |-> "c", D |-> "d", E |-> "e", F |-> "f", G |-> "g",
     H |-> "h", I |-> "i", J |-> "j", K |-> "k", L |-> "l", M |-> "m", N |-> "n",
     O |-> "o", P |-> "p", Q |-> "q", R |-> "r", S |-> "s", T |-> "t", U |-> "u",
     V |-> "v", W |-> "w", X |-> "x", Y |-> "y", Z |-> "z"]

LowerChar(c) == IF c \in DOMAIN LowerTable THEN LowerTable[c] ELSE c

\* lower leaving the text as it is
lowerUnchanged(s) == s

RECURSIVE lower(_)
lower(s) ==
    IF Len(s) = 0 THEN ""
    ELSE LowerChar(SubSeq(s, 1, 1)) \o lower(SubSeq(s, 2, Len(s)))

\* index of the last "/" of s, 0 when there is none
SlashIndexLast(s) ==
    IF \E i \in 1..Len(s) : SubSeq(s, i, i) = "/"
    THEN CHOOSE i \in 1..Len(s) :
            /\ SubSeq(s, i, i) = "/"
            /\ \A j \in (i + 1)..Len(s) : SubSeq(s, j, j) # "/"
    ELSE 0

\* index of the first "/" of s, 0 when there is none
SlashIndex(s) ==
    IF \E i \in 1..Len(s) : SubSeq(s, i, i) = "/"
    THEN CHOOSE i \in 1..Len(s) :
            /\ SubSeq(s, i, i) = "/"
            /\ \A j \in 1..(i - 1) : SubSeq(s, j, j) # "/"
    ELSE 0

split_apiversion(api_version) ==
    LET i == SlashIndex(api_version)
    IN IF i > 0
       THEN [group |-> SubSeq(api_version, 1, i - 1),
             version |-> SubSeq(api_version, i + 1, Len(api_version))]
       ELSE [group |-> "", version |-> api_version]

special ==
    [endpoints |-> "endpoints",
     ingress |-> "ingresses",
     networkpolicy |-> "networkpolicies",
     configmap |-> "configmaps",
     secret |-> "secrets",
     serviceaccount |-> "serviceaccounts",
     persistentvolumeclaim |-> "persistentvolumeclaims",
     rolebinding |-> "rolebindings",
     clusterrole |-> "clusterroles",
     clusterrolebinding |-> "clusterrolebindings",
     horizontalpodautoscaler |-> "horizontalpodautoscalers",
     poddisruptionbudget |-> "poddisruptionbudgets",
     statefulset |-> "statefulsets",
     daemonset |-> "daemonsets",
     deployment |-> "deployments",
     job |-> "jobs",
     cronjob |-> "cronjobs",
     service |-> "services",
     pod |-> "pods"]

kind_to_resource_plural(kind) ==
    LET k == lower(IF Truthy(kind) THEN kind ELSE "")
    IN IF k \in DOMAIN special THEN special[k] ELSE k \o "s"

(***************************************************************************)
(* build_feedback_for_manifest                                             *)
(***************************************************************************)
builtins == {"deployment", "statefulset", "daemonset", "job", "pod", "ingress"}

JsonPath(n, p) == [name |-> n, path |-> p]

DeletionTimestamp == JsonPath("DeletionTimestamp", ".metadata.deletionTimestamp")

BuiltinJsonPaths(k_low) ==
    IF k_low \in {"deployment", "statefulset"} THEN
        <<JsonPath("SpecReplicas", ".spec.replicas"), DeletionTimestamp>>
    ELSE IF k_low = "daemonset" THEN
        <<JsonPath("DesiredNumberScheduled", ".status.desiredNumberScheduled"),
          JsonPath("NumberAvailable", ".status.numberAvailable"),
          JsonPath("UpdatedNumberScheduled", ".status.updatedNumberScheduled"),
          DeletionTimestamp>>
    ELSE IF k_low = "job" THEN
        <<JsonPath("Succeeded", ".status.succeeded"),
          JsonPath("Failed", ".status.failed"),
          DeletionTimestamp>>
    ELSE IF k_low = "pod" THEN
        <<JsonPath("Phase", ".status.phase"), DeletionTimestamp>>
    ELSE IF k_low = "ingress" THEN
        <<JsonPath("LBIPs", ".status.loadBalancer.ingress[*].ip"),
          JsonPath("LBHosts", ".status.loadBalancer.ingress[*].hostname"),
          DeletionTimestamp>>
    ELSE <<>>

\* CustomJsonPaths without the DeletionTimestamp probe
CustomJsonPathsGenerationOnly ==
    <<JsonPath("ObservedGeneration", ".status.observedGeneration")>>

CustomJsonPaths ==
    <<JsonPath("ObservedGeneration", ".status.observedGeneration"), DeletionTimestamp>>

\* m.get("metadata", {}) or {}
MetaOf(m) ==
    IF "metadata" \in DOMAIN m /\ m.metadata # NoDict THEN m.metadata ELSE EmptyDict

FeedbackConfig(m, kind, meta_name, rules) ==
    [resourceIdentifier |->
        [group |-> split_apiversion(Get(m, "apiVersion", "")).group,
         resource |-> kind_to_resource_plural(kind),
         name |-> meta_name,
         namespace |-> Get(MetaOf(m), "namespace", None)],
     feedbackRules |-> rules]

\* build_feedback_for_manifest returning None for a manifest without namespace
build_feedback_needs_namespace(m) ==
    IF ~IsDict(m) THEN NoDict
    ELSE
    LET kind == Get(m, "kind", "")
        meta == MetaOf(m)
        meta_name == Get(meta, "name", None)
        meta_namespace == Get(meta, "namespace", None)
    IN  IF ~Truthy(kind) \/ ~Truthy(meta_name) \/ ~Truthy(meta_namespace) THEN NoDict
        ELSE
        LET k_low == lower(kind)
        IN  IF k_low \in builtins THEN
                LET json_paths == BuiltinJsonPaths(k_low)
                    rules == IF json_paths # <<>>
                             THEN <<[type |-> "WellKnownStatus"],
                                    [type |-> "JSONPaths", jsonPaths |-> json_paths]>>
                             ELSE <<[type |-> "WellKnownStatus"]>>
                IN FeedbackConfig(m, kind, meta_name, rules)
            ELSE FeedbackConfig(m, kind, meta_name,
                                <<[type |-> "JSONPaths", jsonPaths |-> CustomJsonPaths]>>)

build_feedback_for_manifest(m) ==
    IF ~IsDict(m) THEN NoDict
    ELSE
    LET kind == Get(m, "kind", "")
        meta == MetaOf(m)
        meta_name == Get(meta, "name", None)
    IN  IF ~Truthy(kind) \/ ~Truthy(meta_name) THEN NoDict
        ELSE
        LET k_low == lower(kind)
        IN  IF k_low \in builtins THEN
                LET json_paths == BuiltinJsonPaths(k_low)
                    rules == IF json_paths # <<>>
                             THEN <<[type |-> "WellKnownStatus"],
                                    [type |-> "JSONPaths", jsonPaths |-> json_paths]>>
                             ELSE <<[type |-> "WellKnownStatus"]>>
                IN FeedbackConfig(m, kind, meta_name, rules)
            ELSE FeedbackConfig(m, kind, meta_name,
                                <<[type |-> "JSONPaths", jsonPaths |-> CustomJsonPaths]>>)

(***************************************************************************)
(* extract_crd_resources, create_rbac_manifests                            *)
(*                                                                         *)
(* rbac_rules is an insertion-ordered dict: a sequence of entries          *)
(* [group, resources, verbs] with distinct groups, resources and verbs     *)
(* being sets.                                                             *)
(***************************************************************************)
CrdVerbs == {"get", "list", "watch", "create", "update", "patch", "delete"}

\* IsCrd passing over a CustomResourceDefinition without group or plural
IsCrdWithGroupAndPlural(manifest) ==
    /\ IsDict(manifest)
    /\ Get(manifest, "kind", None) = "CustomResourceDefinition"
    /\ "spec" \in DOMAIN manifest
    /\ "group" \in DOMAIN manifest.spec
    /\ "names" \in DOMAIN manifest.spec
    /\ "plural" \in DOMAIN manifest.spec.names

IsCrd(manifest) ==
    IsDict(manifest) /\ Get(manifest, "kind", None) = "CustomResourceDefinition"

\* manifest["spec"]["group"] or manifest["spec"]["names"]["plural"] raises
CrdLookupRaises(manifest) ==
    \/ "spec" \notin DOMAIN manifest
    \/ "group" \notin DOMAIN manifest.spec
    \/ "names" \notin DOMAIN manifest.spec
    \/ "plural" \notin DOMAIN manifest.spec.names

\* AddRbacRule assigning the group's sets instead of updating them
AddRbacRuleOverwrite(rbac_rules, api_group, resources, verbs) ==
    LET entry == [group |-> api_group, resources |-> resources, verbs |-> verbs]
    IN IF \E i \in 1..Len(rbac_rules) : rbac_rules[i].group = api_group
       THEN [i \in 1..Len(rbac_rules) |->
                IF rbac_rules[i].group = api_group THEN entry ELSE rbac_rules[i]]
       ELSE Append(rbac_rules, entry)

AddRbacRule(rbac_rules, api_group, resources, verbs) ==
    LET with_group ==
            IF \E i \in 1..Len(rbac_rules) : rbac_rules[i].group = api_group
            THEN rbac_rules
            ELSE Append(rbac_rules, [group |-> api_group, resources |-> {}, verbs |-> {}])
    IN [i \in 1..Len(with_group) |->
            IF with_group[i].group = api_group
            THEN [group |-> api_group,
                  resources |-> with_group[i].resources \cup resources,
                  verbs |-> with_group[i].verbs \cup verbs]
            ELSE with_group[i]]

RECURSIVE ExtractLoop(_, _, _)
ExtractLoop(templates, i, rbac_rules) ==
    IF i > Len(templates) THEN [raised |-> FALSE, rbac_rules |-> rbac_rules]
    ELSE LET manifest == templates[i]
         IN IF IsCrd(manifest)
            THEN IF CrdLookupRaises(manifest)
                 THEN [raised |-> TRUE, rbac_rules |-> rbac_rules]
                 ELSE ExtractLoop(templates, i + 1,
                                  AddRbacRule(rbac_rules, manifest.spec.group,
                                              {manifest.spec.names.plural}, CrdVerbs))
            ELSE ExtractLoop(templates, i + 1, rbac_rules)

extract_crd_resources(templates) == ExtractLoop(templates, 1, <<>>)

\* list(a_set): the elements in the iteration order of a set of strings, which
\* follows the string hashes of the running interpreter.  HashOrders lists the
\* strings in the order of their hashes, one order per hash seed of the model.
HashOrders ==
    <<  <<"get", "list", "watch", "create", "update", "patch", "delete",
          "widgets", "gadgets", "things">>,
        <<"things", "gadgets", "widgets",
          "delete", "patch", "update", "create", "watch", "list", "get">>  >>

HashSeeds == 1..Len(HashOrders)

RECURSIVE SelectIn(_, _)
SelectIn(order, S) ==
    IF order = <<>> THEN <<>>
    ELSE IF Head(order) \in S THEN <<Head(order)>> \o SelectIn(Tail(order), S)
    ELSE SelectIn(Tail(order), S)

ListOfSet(S) == SelectIn(HashOrders[hash_seed], S)

\* ClusterRoleRule naming the core group instead of the entry's group
ClusterRoleRuleCoreGroup(entry) ==
    [apiGroups |-> <<"">>,
     resources |-> ListOfSet(entry.resources),
     verbs |-> ListOfSet(entry.verbs)]

ClusterRoleRule(entry) ==
    [apiGroups |-> <<entry.group>>,
     resources |-> ListOfSet(entry.resources),
     verbs |-> ListOfSet(entry.verbs)]

create_rbac_manifests(rbac_rules, role_name) ==
    IF rbac_rules = <<>> THEN <<>>
    ELSE
    LET cluster_role ==
            [apiVersion |-> "rbac.authorization.k8s.io/v1",
             kind |-> "ClusterRole",
             metadata |-> [name |-> role_name],
             rules |-> [i \in 1..Len(rbac_rules) |-> ClusterRoleRule(rbac_rules[i])]]
        cluster_role_binding ==
            [apiVersion |-> "rbac.authorization.k8s.io/v1",
             kind |-> "ClusterRoleBinding",
             metadata |-> [name |-> role_name \o "-binding"],
             roleRef |-> [apiGroup |-> "rbac.authorization.k8s.io",
                          kind |-> "ClusterRole",
                          name |-> role_name],
             subjects |-> <<[kind |-> "ServiceAccount",
                             name |-> "klusterlet-work-sa",
                             namespace |-> "open-cluster-management-agent"]>>]
    IN <<cluster_role, cluster_role_binding>>

(***************************************************************************)
(* yaml.dump(manifest, default_flow_style=False): its UTF-8 byte length.   *)
(* Block style, keys sorted, one line per scalar, a sequence's items at    *)
(* the indentation of its key.                                             *)
(***************************************************************************)
LineBytes(text) == Len(text) + 1

ItemLinesBytes(indent, items) ==
    SumSeq([i \in 1..Len(items) |-> LineBytes(indent \o "- " \o items[i])])

ClusterRoleRuleBytes(rule) ==
    LineBytes("- apiGroups:") + ItemLinesBytes("  ", rule.apiGroups)
    + LineBytes("  resources:") + ItemLinesBytes("  ", rule.resources)
    + LineBytes("  verbs:") + ItemLinesBytes("  ", rule.verbs)

ClusterRoleBytes(m) ==
    LineBytes("apiVersion: " \o m.apiVersion)
    + LineBytes("kind: " \o m.kind)
    + LineBytes("metadata:")
    + LineBytes("  name: " \o m.metadata.name)
    + LineBytes("rules:")
    + SumSeq([i \in 1..Len(m.rules) |-> ClusterRoleRuleBytes(m.rules[i])])

ClusterRoleBindingBytes(m) ==
    LineBytes("apiVersion: " \o m.apiVersion)
    + LineBytes("kind: " \o m.kind)
    + LineBytes("metadata:")
    + LineBytes("  name: " \o m.metadata.name)
    + LineBytes("roleRef:")
    + LineBytes("  apiGroup: " \o m.roleRef.apiGroup)
    + LineBytes("  kind: " \o m.roleRef.kind)
    + LineBytes("  name: " \o m.roleRef.name)
    + LineBytes("subjects:")
    + SumSeq([i \in 1..Len(m.subjects) |->
                LineBytes("- kind: " \o m.subjects[i].kind)
                + LineBytes("  name: " \o m.subjects[i].name)
                + LineBytes("  namespace: " \o m.subjects[i].namespace)])

yaml_dump_size(manifest) ==
    IF "yamlBytes" \in DOMAIN manifest THEN manifest.yamlBytes
    ELSE IF "rules" \in DOMAIN manifest THEN ClusterRoleBytes(manifest)
    ELSE ClusterRoleBindingBytes(manifest)

(***************************************************************************)
(* split_manifest_workload                                                 *)
(***************************************************************************)
\* SplitStep with the closed partition dropped instead of pushed
SplitStepDropsClosed(st, manifest, limit) ==
    LET manifest_size == yaml_dump_size(manifest)
        closed == st.current_size + manifest_size > limit
        before == IF closed
                  THEN [split_workloads |-> st.split_workloads,
                        current_workload |-> <<>>,
                        current_size |-> 0]
                  ELSE st
    IN [split_workloads |-> before.split_workloads,
        current_workload |-> Append(before.current_workload, manifest),
        current_size |-> before.current_size + manifest_size]

\* SplitStep with current_size never increased
SplitStepNoAccumulate(st, manifest, limit) ==
    LET manifest_size == yaml_dump_size(manifest)
        closed == st.current_size + manifest_size > limit
        before == IF closed
                  THEN [split_workloads |-> Append(st.split_workloads, st.current_workload),
                        current_workload |-> <<>>,
                        current_size |-> 0]
                  ELSE st
    IN [split_workloads |-> before.split_workloads,
        current_workload |-> Append(before.current_workload, manifest),
        current_size |-> before.current_size]

\* SplitStep closing at >= instead of >
SplitStepClosesAtLimit(st, manifest, limit) ==
    LET manifest_size == yaml_dump_size(manifest)
        closed == st.current_size + manifest_size >= limit
        before == IF closed
                  THEN [split_workloads |-> Append(st.split_workloads, st.current_workload),
                        current_workload |-> <<>>,
                        current_size |-> 0]
                  ELSE st
    IN [split_workloads |-> before.split_workloads,
        current_workload |-> Append(before.current_workload, manifest),
        current_size |-> before.current_size + manifest_size]

\* SplitStep closing the current partition before every manifest but the first
SplitStepOnePerPartition(st, manifest, limit) ==
    LET manifest_size == yaml_dump_size(manifest)
        closed == \/ st.current_size + manifest_size > limit
                  \/ st.current_workload # <<>>
        before == IF closed
                  THEN [split_workloads |-> Append(st.split_workloads, st.current_workload),
                        current_workload |-> <<>>,
                        current_size |-> 0]
                  ELSE st
    IN [split_workloads |-> before.split_workloads,
        current_workload |-> Append(before.current_workload, manifest),
        current_size |-> before.current_size + manifest_size]

\* one iteration of the loop over the workload
SplitStep(st, manifest, limit) ==
    LET manifest_size == yaml_dump_size(manifest)
        closed == st.current_size + manifest_size > limit
        before == IF closed
                  THEN [split_workloads |-> Append(st.split_workloads, st.current_workload),
                        current_workload |-> <<>>,
                        current_size |-> 0]
                  ELSE st
    IN [split_workloads |-> before.split_workloads,
        current_workload |-> Append(before.current_workload, manifest),
        current_size |-> before.current_size + manifest_size]

RECURSIVE SplitLoop(_, _, _, _)
SplitLoop(list, limit, i, st) ==
    IF i > Len(list) THEN st
    ELSE SplitLoop(list, limit, i + 1, SplitStep(st, list[i], limit))

split_manifest_workload(list, limit) ==
    LET st == SplitLoop(list, limit, 1,
                        [split_workloads |-> <<>>, current_workload |-> <<>>,
                         current_size |-> 0])
    IN IF st.current_workload # <<>>
       THEN Append(st.split_workloads, st.current_workload)
       ELSE st.split_workloads

(***************************************************************************)
(* generate_mwrs_files                                                     *)
(***************************************************************************)
\* the feedback configs of one split: cfg appended when truthy
ManifestConfigs(split) ==
    LET cfgs == [i \in 1..Len(split) |-> build_feedback_for_manifest(split[i])]
    IN SelectSeq(cfgs, LAMBDA cfg : cfg # NoDict)

\* SplitConfigs with manifest_configs created once, before the loop over the splits
SplitConfigsAccumulated(splits, i) ==
    Concat([j \in 1..i |-> ManifestConfigs(splits[j])])

\* SplitConfigs with the configs kept in a set and listed in its iteration order
SplitConfigsHashOrdered(splits, i) ==
    LET cfgs == ManifestConfigs(splits[i])
    IN IF hash_seed = 1 THEN cfgs
       ELSE [j \in 1..Len(cfgs) |-> cfgs[Len(cfgs) + 1 - j]]

\* manifest_configs of the i-th split (1-based): a new list for each split
SplitConfigs(splits, i) == ManifestConfigs(splits[i])

\* PartFilename with enumerate's 0-based index
PartFilenameZeroBased(prefix, index0) ==
    prefix \o "_part_" \o ToString(index0) \o ".yaml"

\* f"{output_prefix}_part_{index+1}.yaml", index0 being enumerate's index
PartFilename(prefix, index0) == prefix \o "_part_" \o ToString(index0 + 1) \o ".yaml"

MwrsContent(index0, splits, nm, ns, pl) ==
    [apiVersion |-> "work.open-cluster-management.io/v1alpha1",
     kind |-> "ManifestWorkReplicaSet",
     metadata |-> [name |-> nm \o "-" \o ToString(index0 + 1), namespace |-> ns],
     spec |-> [cascadeDeletionPolicy |-> "Background",
               placementRefs |-> <<[name |-> pl]>>,
               manifestWorkTemplate |->
                   [manifestConfigs |-> SplitConfigs(splits, index0 + 1),
                    workload |-> [manifests |-> splits[index0 + 1]]]]]

\* ExtendTemplates with the RBAC manifests put first
ExtendTemplatesPrepends(templates, rbac_manifests) ==
    IF rbac_manifests # <<>> THEN rbac_manifests \o templates ELSE templates

\* the list the caller passed, after helm_templates.extend(rbac_manifests)
ExtendTemplates(templates, rbac_manifests) ==
    IF rbac_manifests # <<>> THEN templates \o rbac_manifests ELSE templates

\* The whole call.  raised: extract_crd_resources raised and nothing else
\* happened.  Otherwise templates is the caller's list as the call leaves it,
\* written the files in the order they were written, output_files the result.
generate_mwrs_files(templates, nm, ns, pl, prefix) ==
    LET extracted == extract_crd_resources(templates)
    IN  IF extracted.raised
        THEN [raised |-> TRUE, templates |-> templates, splits |-> <<>>,
              written |-> <<>>, output_files |-> <<>>]
        ELSE
        LET rbac_manifests == create_rbac_manifests(extracted.rbac_rules,
                                                    nm \o "-rbac-role")
            extended == ExtendTemplates(templates, rbac_manifests)
            splits == split_manifest_workload(extended, MAX_FILE_SIZE)
            written == [i \in 1..Len(splits) |->
                          [filename |-> PartFilename(prefix, i - 1),
                           content |-> MwrsContent(i - 1, splits, nm, ns, pl)]]
        IN [raised |-> FALSE, templates |-> extended, splits |-> splits,
            written |-> written,
            output_files |-> [i \in 1..Len(written) |-> written[i].filename]]

\* open(filename, "w") + yaml.dump for each written file, in order
RECURSIVE WriteFiles(_, _)
WriteFiles(fs, written) ==
    IF written = <<>> THEN fs
    ELSE WriteFiles((Head(written).filename :> Head(written).content) @@ fs,
                    Tail(written))

(***************************************************************************)
(* Inputs.                                                                 *)
(***************************************************************************)
RECURSIVE SeqsUpTo(_, _)
SeqsUpTo(S, n) ==
    IF n = 0 THEN {<<>>}
    ELSE LET shorter == SeqsUpTo(S, n - 1)
         IN shorter \cup {Append(q, x) : q \in {r \in shorter : Len(r) = n - 1}, x \in S}

ConfigMap(nm, bytes) ==
    [apiVersion |-> "v1", kind |-> "ConfigMap", metadata |-> [name |-> nm],
     yamlBytes |-> bytes]

SplitManifests == {ConfigMap(nm, b) : nm \in {"cm1", "cm2"}, b \in 1..MaxManifestBytes}

Deployment(bytes) ==
    [apiVersion |-> "apps/v1", kind |-> "Deployment",
     metadata |-> [name |-> "app", namespace |-> "ns"], yamlBytes |-> bytes]

Crd(group, plural) ==
    [apiVersion |-> "apiextensions.k8s.io/v1", kind |-> "CustomResourceDefinition",
     metadata |-> [name |-> plural \o "." \o group],
     spec |-> [group |-> group, names |-> [plural |-> plural]],
     yamlBytes |-> SmallBytes]

\* a CRD without spec.group
MalformedCrd ==
    [apiVersion |-> "apiextensions.k8s.io/v1", kind |-> "CustomResourceDefinition",
     metadata |-> [name |-> "broken"],
     spec |-> [names |-> [plural |-> "things"]],
     yamlBytes |-> SmallBytes]

\* a CRD without spec.names.plural
MalformedCrdNoPlural ==
    [apiVersion |-> "apiextensions.k8s.io/v1", kind |-> "CustomResourceDefinition",
     metadata |-> [name |-> "nameless"],
     spec |-> [group |-> "example.com", names |-> [kind |-> "Thing"]],
     yamlBytes |-> SmallBytes]

\* a mapping without kind
Kindless == [apiVersion |-> "v1", metadata |-> [name |-> "app"], yamlBytes |-> SmallBytes]

\* a document that is no mapping
Scalar == [scalar |-> "not a dict", yamlBytes |-> SmallBytes]

HalfBytes == MAX_FILE_SIZE \div 2
OverBytes == MAX_FILE_SIZE + 1

TemplateManifests ==
    {Deployment(b) : b \in {SmallBytes, HalfBytes, OverBytes}}
    \cup {Crd("example.com", "widgets"), Crd("example.com", "gadgets"),
          Crd("other.io", "things"), MalformedCrd, MalformedCrdNoPlural,
          Kindless, Scalar}

(***************************************************************************)
(* SpecSplit: split_manifest_workload applied to every workload and        *)
(* max_size of the bounds.                                                 *)
(***************************************************************************)
Idle ==
    /\ helm_templates = <<>> /\ input_docs = <<>>
    /\ name = "" /\ namespace = "" /\ placement = "" /\ output_prefix = ""
    /\ hash_seed = 1 /\ files = <<>> /\ output_files = <<>> /\ runs = <<>>

InitSplit ==
    /\ workload \in SeqsUpTo(SplitManifests, MaxWorkloadLen)
    /\ max_size \in 0..MaxMaxSize
    /\ split_workloads = <<>>
    /\ pc = "start"
    /\ Idle
    /\ NoOtherCalls

Split ==
    /\ pc = "start"
    /\ split_workloads' = split_manifest_workload(workload, max_size)
    /\ pc' = "done"
    /\ UNCHANGED <<workload, max_size, helm_templates, name, namespace, placement,
                   output_prefix, hash_seed, files, output_files, input_docs, runs>>
    /\ UNCHANGED otherVars

NextSplit == Split

SpecSplit == InitSplit /\ [][NextSplit]_vars

(***************************************************************************)
(* Spec: a caller of generate_mwrs_files.  It calls with the list it       *)
(* holds; between two calls it may load the same input again, in a new     *)
(* interpreter (wrap_command run again on the same file).                  *)
(***************************************************************************)
Init ==
    /\ input_docs \in SeqsUpTo(TemplateManifests, MaxTemplates)
    /\ helm_templates = input_docs
    /\ name \in {"mw"}
    /\ namespace \in {"ns"}
    /\ placement \in {"p"}
    /\ output_prefix \in {"mwrs"}
    /\ hash_seed \in HashSeeds
    /\ files = <<>>
    /\ output_files = <<>>
    /\ runs = <<>>
    /\ pc = "ready"
    /\ workload = <<>> /\ max_size = 0 /\ split_workloads = <<>>
    /\ NoOtherCalls

Generate ==
    /\ pc \in {"ready", "returned"}
    /\ Len(runs) < 2
    /\ \E r \in {generate_mwrs_files(helm_templates, name, namespace, placement,
                                     output_prefix)} :
          /\ helm_templates' = r.templates
          /\ files' = WriteFiles(files, r.written)
          /\ output_files' = IF r.raised THEN output_files ELSE r.output_files
          /\ runs' = Append(runs, [input |-> helm_templates,
                                   fresh |-> pc = "ready",
                                   hash_seed |-> hash_seed,
                                   raised |-> r.raised,
                                   splits |-> r.splits,
                                   written |-> r.written,
                                   output_files |-> r.output_files,
                                   templates_after |-> r.templates])
          /\ pc' = IF r.raised THEN "raised" ELSE "returned"
    /\ UNCHANGED <<workload, max_size, split_workloads, name, namespace, placement,
                   output_prefix, hash_seed, input_docs>>
    /\ UNCHANGED otherVars

Reload ==
    /\ pc = "returned"
    /\ Len(runs) < 2
    /\ helm_templates' = input_docs
    /\ hash_seed' \in HashSeeds
    /\ pc' = "ready"
    /\ UNCHANGED <<workload, max_size, split_workloads, name, namespace, placement,
                   output_prefix, files, output_files, input_docs, runs>>
    /\ UNCHANGED otherVars

Next == Generate \/ Reload

Spec == Init /\ [][Next]_vars

(***************************************************************************)
(* Properties of split_manifest_workload (SpecSplit).                      *)
(***************************************************************************)
PartitionBytes(split) == SumSeq([i \in 1..Len(split) |-> yaml_dump_size(split[i])])

\* '\n---\n'.join(yaml.dump(m) for m in split), its byte length
JoinedBytes(split) ==
    IF split = <<>> THEN 0
    ELSE PartitionBytes(split) + Len("\n---\n") * (Len(split) - 1)

NoneOversized(list, limit) == \A i \in 1..Len(list) : yaml_dump_size(list[i]) <= limit

\* C1: the returned partitions, concatenated in order, are exactly the input
\* sequence: no manifest is dropped, duplicated, split or reordered.
C1_ConcatenationIsInput ==
    pc = "done" => Concat(split_workloads) = workload

C1_Witness ==
    /\ pc = "done"
    /\ Len(workload) >= 3
    /\ Len(split_workloads) >= 2
    /\ \E i \in 1..Len(split_workloads) : Len(split_workloads[i]) >= 2

\* C2: no returned partition is empty, also when the first manifest alone is
\* larger than max_size.
C2_NoEmptyPartition ==
    pc = "done" => \A i \in 1..Len(split_workloads) : split_workloads[i] # <<>>

\* C3: every partition sums to at most max_size unless it is a single manifest
\* larger than max_size, and a manifest larger than max_size is alone in its
\* partition.
C3_PartitionWithinLimit ==
    pc = "done" =>
        \A i \in 1..Len(split_workloads) :
            LET split == split_workloads[i]
            IN /\ \/ PartitionBytes(split) <= max_size
                  \/ Len(split) = 1 /\ yaml_dump_size(split[1]) > max_size
               /\ \A j \in 1..Len(split) :
                      yaml_dump_size(split[j]) > max_size => Len(split) = 1

C3_Witness ==
    /\ pc = "done"
    /\ \E i \in 2..Len(split_workloads) :
          /\ Len(split_workloads[i]) = 1
          /\ yaml_dump_size(split_workloads[i][1]) > max_size
          /\ Len(split_workloads[i - 1]) >= 2
          /\ PartitionBytes(split_workloads[i - 1]) = max_size

\* C4: a non-empty input whose sizes sum to at most max_size comes back as
\* exactly one partition holding all manifests in their order.
C4_FitsInOnePartition ==
    (pc = "done" /\ workload # <<>> /\ PartitionBytes(workload) <= max_size)
        => split_workloads = <<workload>>

C4_Witness ==
    /\ pc = "done"
    /\ Len(workload) >= 2
    /\ PartitionBytes(workload) = max_size
    /\ split_workloads = <<workload>>

\* C5: when no single manifest exceeds max_size, every partition is at most
\* max_size bytes when its manifests are joined with the document separator.
C5_JoinedWithinLimit ==
    (pc = "done" /\ NoneOversized(workload, max_size))
        => \A i \in 1..Len(split_workloads) : JoinedBytes(split_workloads[i]) <= max_size

(***************************************************************************)
(* Properties of generate_mwrs_files (Spec).  A run is an entry of runs.   *)
(***************************************************************************)
Completed == {k \in 1..Len(runs) : ~runs[k].raised}

\* the manifests the call appended to the list it was given
Synthesized(run) == SubSeq(run.templates_after, Len(run.input) + 1, Len(run.templates_after))

IsSynthesized(run, m) == \E j \in 1..Len(Synthesized(run)) : Synthesized(run)[j] = m

DocConfigs(doc) == doc.content.spec.manifestWorkTemplate.manifestConfigs

DocManifests(doc) == doc.content.spec.manifestWorkTemplate.workload.manifests

RbacResources == {"clusterroles", "clusterrolebindings"}

\* cfg is the feedback config the code's generic branch gives manifest m
IsGenericConfigOf(cfg, m) ==
    /\ cfg.resourceIdentifier.name = m.metadata.name
    /\ cfg.resourceIdentifier.group = "rbac.authorization.k8s.io"
    /\ cfg.resourceIdentifier.resource = lower(m.kind) \o "s"
    /\ cfg.resourceIdentifier.namespace = None
    /\ Len(cfg.feedbackRules) = 1
    /\ cfg.feedbackRules[1].type = "JSONPaths"
    /\ Len(cfg.feedbackRules[1].jsonPaths) = 2
    /\ cfg.feedbackRules[1].jsonPaths[1].name = "ObservedGeneration"
    /\ cfg.feedbackRules[1].jsonPaths[2].name = "DeletionTimestamp"

\* C6 as stated: no manifestConfigs entry of any wrapper document refers to a
\* synthesized ClusterRole or ClusterRoleBinding.
C6_NoFeedbackForRbac ==
    \A k \in Completed :
        \A i \in 1..Len(runs[k].written) :
            \A c \in 1..Len(DocConfigs(runs[k].written[i])) :
                DocConfigs(runs[k].written[i])[c].resourceIdentifier.resource
                    \notin RbacResources

\* C6 amended: every synthesized ClusterRole and ClusterRoleBinding gets the
\* generic feedback config (one JSONPaths rule with ObservedGeneration and
\* DeletionTimestamp, namespace None) in the wrapper document that holds it.
C6_RbacGetsGenericFeedback ==
    \A k \in Completed :
        \A i \in 1..Len(runs[k].written) :
            LET doc == runs[k].written[i]
            IN \A j \in 1..Len(DocManifests(doc)) :
                  IsSynthesized(runs[k], DocManifests(doc)[j]) =>
                      \E c \in 1..Len(DocConfigs(doc)) :
                          IsGenericConfigOf(DocConfigs(doc)[c], DocManifests(doc)[j])

C6_Witness ==
    \E k \in Completed :
        /\ Len(Synthesized(runs[k])) = 2
        /\ \E i \in 1..Len(runs[k].written) :
              \E c \in 1..Len(DocConfigs(runs[k].written[i])) :
                  DocConfigs(runs[k].written[i])[c].resourceIdentifier.resource
                      = "clusterrolebindings"

\* C7: one wrapper document per partition, in partition order: the i-th is
\* written to {output_prefix}_part_{i}.yaml with metadata.name {name}-{i}, the
\* given namespace, placementRefs [{name: placement}] and cascadeDeletionPolicy
\* Background; the returned list names the files in the same order.
C7_OneDocumentPerPartition ==
    \A k \in Completed :
        LET run == runs[k]
            parts == split_manifest_workload(run.templates_after, MAX_FILE_SIZE)
        IN /\ Len(run.written) = Len(parts)
           /\ Len(run.output_files) = Len(parts)
           /\ \A i \in 1..Len(parts) :
                 LET doc == run.written[i]
                 IN /\ doc.filename = output_prefix \o "_part_" \o ToString(i) \o ".yaml"
                    /\ run.output_files[i] = doc.filename
                    /\ doc.content.kind = "ManifestWorkReplicaSet"
                    /\ doc.content.metadata.name = name \o "-" \o ToString(i)
                    /\ doc.content.metadata.namespace = namespace
                    /\ doc.content.spec.placementRefs = <<[name |-> placement]>>
                    /\ doc.content.spec.cascadeDeletionPolicy = "Background"
                    /\ DocManifests(doc) = parts[i]
                    /\ k = Len(runs) =>
                          /\ doc.filename \in DOMAIN files
                          /\ files[doc.filename] = doc.content
                          /\ output_files = run.output_files

C7_Witness ==
    \E k \in Completed :
        /\ Len(runs[k].written) >= 3
        /\ runs[k].output_files[3] = "mwrs_part_3.yaml"
        /\ runs[k].written[3].content.metadata.name = "mw-3"

\* cfgs holds, in order, one entry per manifest of list that has a feedback
\* config, that entry being the manifest's config, and nothing else
RECURSIVE ConfigsAreThoseOf(_, _)
ConfigsAreThoseOf(cfgs, list) ==
    IF list = <<>> THEN cfgs = <<>>
    ELSE \A cfg \in {build_feedback_for_manifest(Head(list))} :
            IF cfg = NoDict THEN ConfigsAreThoseOf(cfgs, Tail(list))
            ELSE /\ cfgs # <<>>
                 /\ Head(cfgs) = cfg
                 /\ ConfigsAreThoseOf(Tail(cfgs), Tail(list))

\* C8: manifestConfigs of a wrapper document is the list of the non-absent
\* feedback configs of the manifests of its own partition, in manifest order,
\* and its manifest list is the partition unchanged.
C8_ConfigsOfOwnPartition ==
    \A k \in Completed :
        /\ Concat([i \in 1..Len(runs[k].written) |-> DocManifests(runs[k].written[i])])
              = runs[k].templates_after
        /\ \A i \in 1..Len(runs[k].written) :
              /\ DocManifests(runs[k].written[i]) = runs[k].splits[i]
              /\ ConfigsAreThoseOf(DocConfigs(runs[k].written[i]),
                                   DocManifests(runs[k].written[i]))

C8_Witness ==
    \E k \in Completed :
        /\ Len(runs[k].written) >= 2
        /\ \E i \in 2..Len(runs[k].written) :
              /\ Len(DocConfigs(runs[k].written[i])) >= 2
              /\ Len(DocConfigs(runs[k].written[i])) < Len(DocManifests(runs[k].written[i]))
              /\ DocConfigs(runs[k].written[i - 1]) # <<>>

HasCrd(list) == \E j \in 1..Len(list) : IsCrd(list[j])

SpecExampleInput == <<Deployment(SmallBytes), Crd("example.com", "widgets")>>

Boundaries(run) == [i \in 1..Len(run.splits) |-> Len(run.splits[i])]

FeedbackAssignment(run) == [i \in 1..Len(run.written) |-> DocConfigs(run.written[i])]

\* C10: two calls given the same manifest sequence (and name, namespace,
\* placement) yield the same partition boundaries, the same number of wrapper
\* documents and the same feedback assignment, whatever the hash seed of the
\* interpreter that runs each.
C10_SameInputsSameOutcome ==
    \A k1, k2 \in 1..Len(runs) :
        runs[k1].input = runs[k2].input =>
            /\ runs[k1].raised = runs[k2].raised
            /\ Boundaries(runs[k1]) = Boundaries(runs[k2])
            /\ Len(runs[k1].written) = Len(runs[k2].written)
            /\ FeedbackAssignment(runs[k1]) = FeedbackAssignment(runs[k2])

C10_Witness ==
    /\ Len(runs) = 2
    /\ runs[1].input = runs[2].input
    /\ runs[1].hash_seed # runs[2].hash_seed
    /\ runs[1].templates_after # runs[2].templates_after
    /\ Len(runs[1].written) >= 2
    /\ \E i \in 1..Len(runs[1].written) : Len(DocConfigs(runs[1].written[i])) >= 2

\* C11: after generate_mwrs_files returns, the caller's manifest list holds
\* the same elements in the same order as before the call.
C11_CallerListUnchanged ==
    \A k \in Completed : runs[k].templates_after = runs[k].input

\* a CustomResourceDefinition that lacks spec.group or spec.names.plural
LacksGroupOrPlural(m) ==
    /\ "scalar" \notin DOMAIN m
    /\ "kind" \in DOMAIN m
    /\ m.kind = "CustomResourceDefinition"
    /\ ~("spec" \in DOMAIN m /\ "group" \in DOMAIN m.spec
         /\ "names" \in DOMAIN m.spec /\ "plural" \in DOMAIN m.spec.names)

HasMalformedCrd(list) == \E j \in 1..Len(list) : LacksGroupOrPlural(list[j])

\* C12: when any manifest of the input is a CustomResourceDefinition lacking
\* spec.group or spec.names.plural, whatever its position, the call raises:
\* no partition is computed, no file is written and nothing is returned.
C12_MalformedCrdFailsWholeCall ==
    /\ \A k \in 1..Len(runs) :
          HasMalformedCrd(runs[k].input) <=> runs[k].raised
    /\ \A k \in 1..Len(runs) :
          runs[k].raised =>
              /\ runs[k].splits = <<>>
              /\ runs[k].written = <<>>
              /\ runs[k].output_files = <<>>
    /\ pc = "raised" =>
          /\ runs[Len(runs)].raised
          /\ Len(runs) = 1 => (files = <<>> /\ output_files = <<>>)

C12_Witness ==
    /\ pc = "raised"
    /\ Len(input_docs) >= 3
    /\ IsCrd(input_docs[1]) /\ ~LacksGroupOrPlural(input_docs[1])
    /\ ~IsCrd(input_docs[2])
    /\ LacksGroupOrPlural(input_docs[Len(input_docs)])
    /\ "group" \in DOMAIN input_docs[Len(input_docs)].spec
    /\ files = <<>>

(***************************************************************************)
(* SpecFeedback: build_feedback_for_manifest applied to one manifest.      *)
(***************************************************************************)
NoWrapCall ==
    /\ Idle
    /\ workload = <<>> /\ max_size = 0 /\ split_workloads = <<>>

\* the spellings of the built-in kinds given to the function
BuiltinSpellings ==
    [Deployment |-> {"Deployment", "deployment", "DEPLOYMENT"},
     StatefulSet |-> {"StatefulSet", "statefulset", "STATEFULSET"},
     DaemonSet |-> {"DaemonSet", "daemonset", "DAEMONSET"},
     Job |-> {"Job", "job", "JOB"},
     Pod |-> {"Pod", "pod", "POD"},
     Ingress |-> {"Ingress", "ingress", "INGRESS"}]

BuiltinKindTexts == UNION {BuiltinSpellings[k] : k \in DOMAIN BuiltinSpellings}

OtherKindTexts ==
    {"Service", "ConfigMap", "CustomResourceDefinition", "ClusterRole", "CronJob",
     "Widget", "Deployments"}

\* the keys a mapping may or may not have: each a set of one-key mappings and {}
KindParts == {EmptyDict} \cup {"kind" :> k : k \in BuiltinKindTexts \cup OtherKindTexts \cup {""}}

MetadataParts ==
    {EmptyDict}
    \cup {"metadata" :> md :
            md \in {NoDict, EmptyDict, [name |-> ""], [name |-> "app"],
                    [namespace |-> "ns"], [name |-> "app", namespace |-> "ns"]}}

ApiVersionParts == {EmptyDict} \cup {"apiVersion" :> a : a \in {"v1", "apps/v1"}}

FeedbackManifests ==
    {k @@ md @@ a : k \in KindParts, md \in MetadataParts, a \in ApiVersionParts}
    \cup {[scalar |-> "not a dict"]}

InitFeedback ==
    /\ arg \in FeedbackManifests
    /\ result = <<>>
    /\ pc = "start"
    /\ NoWrapCall
    /\ NoLoadCall
    /\ NoConfigCall
    /\ NoCliCall

CallBuildFeedback ==
    /\ pc = "start"
    /\ result' = build_feedback_for_manifest(arg)
    /\ pc' = "done"
    /\ UNCHANGED <<nonCallVars, arg>>

NextFeedback == CallBuildFeedback

SpecFeedback == InitFeedback /\ [][NextFeedback]_vars

\* the probes of each built-in kind, first to last
KindProbes ==
    [Deployment |-> <<[name |-> "SpecReplicas", path |-> ".spec.replicas"],
                      [name |-> "DeletionTimestamp", path |-> ".metadata.deletionTimestamp"]>>,
     StatefulSet |-> <<[name |-> "SpecReplicas", path |-> ".spec.replicas"],
                       [name |-> "DeletionTimestamp", path |-> ".metadata.deletionTimestamp"]>>,
     DaemonSet |-> <<[name |-> "DesiredNumberScheduled", path |-> ".status.desiredNumberScheduled"],
                     [name |-> "NumberAvailable", path |-> ".status.numberAvailable"],
                     [name |-> "UpdatedNumberScheduled", path |-> ".status.updatedNumberScheduled"],
                     [name |-> "DeletionTimestamp", path |-> ".metadata.deletionTimestamp"]>>,
     Job |-> <<[name |-> "Succeeded", path |-> ".status.succeeded"],
               [name |-> "Failed", path |-> ".status.failed"],
               [name |-> "DeletionTimestamp", path |-> ".metadata.deletionTimestamp"]>>,
     Pod |-> <<[name |-> "Phase", path |-> ".status.phase"],
               [name |-> "DeletionTimestamp", path |-> ".metadata.deletionTimestamp"]>>,
     Ingress |-> <<[name |-> "LBIPs", path |-> ".status.loadBalancer.ingress[*].ip"],
                   [name |-> "LBHosts", path |-> ".status.loadBalancer.ingress[*].hostname"],
                   [name |-> "DeletionTimestamp", path |-> ".metadata.deletionTimestamp"]>>]

\* the manifest is a mapping with a non-empty kind
HasKind(m) == IsDict(m) /\ "kind" \in DOMAIN m /\ m.kind # ""

\* the manifest is a mapping with a non-empty metadata.name
HasName(m) ==
    /\ IsDict(m)
    /\ "metadata" \in DOMAIN m
    /\ m.metadata # NoDict
    /\ "name" \in DOMAIN m.metadata
    /\ m.metadata.name # ""

\* C13: for a manifest with a name whose kind is, in any letter case, one of
\* Deployment, StatefulSet, DaemonSet, Job, Pod, Ingress, the returned config
\* has exactly two feedback rules: WellKnownStatus first, then one JSONPaths
\* rule holding the probes of that kind.
C13_BuiltinKindGetsWellKnownStatusFirst ==
    (pc = "done" /\ HasKind(arg) /\ HasName(arg)) =>
        \A b \in DOMAIN BuiltinSpellings :
            arg.kind \in BuiltinSpellings[b] =>
                /\ result # NoDict
                /\ result.feedbackRules =
                       <<[type |-> "WellKnownStatus"],
                         [type |-> "JSONPaths", jsonPaths |-> KindProbes[b]]>>

C13_Witness ==
    /\ pc = "done"
    /\ HasName(arg)
    /\ HasKind(arg)
    /\ arg.kind = "STATEFULSET"
    /\ result # NoDict
    /\ result.feedbackRules[1] = [type |-> "WellKnownStatus"]
    /\ result.feedbackRules[2].jsonPaths[1].name = "SpecReplicas"

\* C14: for a manifest with a kind and a name whose kind is none of the
\* built-in kinds, the returned config has exactly one feedback rule, of type
\* JSONPaths, holding exactly ObservedGeneration and DeletionTimestamp.
C14_OtherKindGetsOneJsonPathsRule ==
    (pc = "done" /\ HasKind(arg) /\ HasName(arg) /\ arg.kind \notin BuiltinKindTexts) =>
        /\ result # NoDict
        /\ result.feedbackRules =
               <<[type |-> "JSONPaths",
                  jsonPaths |->
                      <<[name |-> "ObservedGeneration", path |-> ".status.observedGeneration"],
                        [name |-> "DeletionTimestamp", path |-> ".metadata.deletionTimestamp"]>>]>>

C14_Witness ==
    /\ pc = "done"
    /\ HasName(arg)
    /\ HasKind(arg)
    /\ arg.kind = "Deployments"
    /\ result # NoDict
    /\ Len(result.feedbackRules) = 1

\* C15: the function returns None exactly when the manifest is not a mapping,
\* or has no or an empty kind, or has no or an empty metadata.name; in every
\* other case it returns a config, also when metadata.namespace is missing.
C15_NoneExactlyWithoutKindOrName ==
    pc = "done" =>
        /\ (result = NoDict) <=> (~IsDict(arg) \/ ~HasKind(arg) \/ ~HasName(arg))
        /\ (HasKind(arg) /\ HasName(arg) /\ "namespace" \notin DOMAIN arg.metadata) =>
               result.resourceIdentifier.namespace = None

C15_Witness ==
    /\ pc = "done"
    /\ HasKind(arg)
    /\ "metadata" \in DOMAIN arg
    /\ arg.metadata = [name |-> ""]
    /\ result = NoDict

(***************************************************************************)
(* SpecClassify: split_apiversion and kind_to_resource_plural applied to   *)
(* one apiVersion and one kind.                                            *)
(***************************************************************************)
ApiVersionTexts == {"", "v1", "apps/v1", "example.com/v1", "a/b/c", "/v1", "apps/", "/"}

\* the kinds given to the classifier, by their lower-case form
KindSpellings ==
    [ingress |-> {"Ingress", "ingress", "INGRESS"},
     networkpolicy |-> {"NetworkPolicy", "networkpolicy", "NETWORKPOLICY"},
     endpoints |-> {"Endpoints", "endpoints"},
     configmap |-> {"ConfigMap", "configMap"},
     deployment |-> {"Deployment", "DEPLOYMENT"},
     clusterrolebinding |-> {"ClusterRoleBinding"},
     widget |-> {"Widget", "widget", "WIDGET"},
     policy |-> {"Policy", "policy"},
     gateway2 |-> {"Gateway2", "gateway2"},
     endpoint |-> {"Endpoint"}]

KindTexts == UNION {KindSpellings[k] : k \in DOMAIN KindSpellings} \cup {"", None}

InitClassify ==
    /\ arg \in [apiVersion : ApiVersionTexts, kind : KindTexts]
    /\ result = <<>>
    /\ pc = "start"
    /\ NoWrapCall
    /\ NoLoadCall
    /\ NoConfigCall
    /\ NoCliCall

Classify ==
    /\ pc = "start"
    /\ result' = [group |-> split_apiversion(arg.apiVersion).group,
                  version |-> split_apiversion(arg.apiVersion).version,
                  resource |-> kind_to_resource_plural(arg.kind)]
    /\ pc' = "done"
    /\ UNCHANGED <<nonCallVars, arg>>

NextClassify == Classify

SpecClassify == InitClassify /\ [][NextClassify]_vars

HasSlash(s) == \E i \in 1..Len(s) : SubSeq(s, i, i) = "/"

\* the plural of a lower-case kind
PluralOfLower(l) == IF l \in DOMAIN special THEN special[l] ELSE l \o "s"

\* C16: for every apiVersion and kind the classifier returns a result; group
\* is the text before the first "/" of apiVersion, empty when there is none;
\* resource is the table entry of the lower-cased kind, or the lower-cased
\* kind followed by "s" (an empty kind gives "s"); spellings of a kind that
\* differ only in letter case give the same resource.
C16_ClassifierTotalAndCaseInsensitive ==
    pc = "done" =>
        /\ DOMAIN result = {"group", "version", "resource"}
        /\ IF HasSlash(arg.apiVersion)
           THEN /\ arg.apiVersion = result.group \o "/" \o result.version
                /\ ~HasSlash(result.group)
           ELSE result.group = "" /\ result.version = arg.apiVersion
        /\ \A l \in DOMAIN KindSpellings :
               arg.kind \in KindSpellings[l] => result.resource = PluralOfLower(l)
        /\ arg.kind \in {"", None} => result.resource = "s"
        /\ arg.kind \in {"Ingress", "INGRESS"} => result.resource = "ingresses"
        /\ arg.kind = "NetworkPolicy" => result.resource = "networkpolicies"
        /\ arg.kind = "Endpoints" => result.resource = "endpoints"
        /\ arg.kind = "Endpoint" => result.resource = "endpoints"
        /\ arg.kind \in {"Policy", "policy"} => result.resource = "policys"
        /\ arg.kind \in {"Widget", "WIDGET"} => result.resource = "widgets"

C16_Witness ==
    /\ pc = "done"
    /\ arg.apiVersion = "a/b/c"
    /\ arg.kind = "NETWORKPOLICY"
    /\ result.group = "a"
    /\ result.version = "b/c"
    /\ result.resource = "networkpolicies"

(***************************************************************************)
(* SpecRbac: extract_crd_resources applied to a manifest list, then        *)
(* create_rbac_manifests applied to the rule set it returned.              *)
(***************************************************************************)
RbacTemplateManifests ==
    {Crd("example.com", "widgets"), Crd("example.com", "gadgets"),
     Crd("other.io", "things"), MalformedCrd, Deployment(SmallBytes), Scalar}

RoleNames == {"mw-klusterlet-crd-access", ""}

InitRbac ==
    /\ arg \in [templates : SeqsUpTo(RbacTemplateManifests, MaxRbacTemplates),
                role_name : RoleNames]
    /\ result = <<>>
    /\ pc = "start"
    /\ hash_seed \in HashSeeds
    /\ helm_templates = <<>> /\ input_docs = <<>>
    /\ name = "" /\ namespace = "" /\ placement = "" /\ output_prefix = ""
    /\ files = <<>> /\ output_files = <<>> /\ runs = <<>>
    /\ workload = <<>> /\ max_size = 0 /\ split_workloads = <<>>
    /\ NoLoadCall
    /\ NoConfigCall
    /\ NoCliCall

ExtractCrdResources ==
    /\ pc = "start"
    /\ result' = extract_crd_resources(arg.templates)
    /\ pc' = IF result'.raised THEN "raised" ELSE "extracted"
    /\ UNCHANGED <<nonCallVars, arg>>

CreateRbacManifests ==
    /\ pc = "extracted"
    /\ result' = [raised |-> FALSE,
                  rbac_rules |-> result.rbac_rules,
                  manifests |-> create_rbac_manifests(result.rbac_rules, arg.role_name)]
    /\ pc' = "created"
    /\ UNCHANGED <<nonCallVars, arg>>

NextRbac == ExtractCrdResources \/ CreateRbacManifests

SpecRbac == InitRbac /\ [][NextRbac]_vars

\* the CustomResourceDefinitions of a manifest list
CrdsOf(templates) ==
    {templates[i] : i \in {j \in 1..Len(templates) :
                               /\ "kind" \in DOMAIN templates[j]
                               /\ templates[j].kind = "CustomResourceDefinition"}}

\* C17: the returned mapping has exactly one key per spec.group of the
\* CustomResourceDefinitions of the input; a group's resources are exactly the
\* spec.names.plural of the CRDs of that group and its verbs exactly get,
\* list, watch, create, update, patch, delete; without a CRD it is empty.
C17_RuleSetIsCrdGroupsAndPlurals ==
    pc \in {"extracted", "created"} =>
        LET crds == CrdsOf(arg.templates)
            rules == result.rbac_rules
        IN /\ {rules[i].group : i \in 1..Len(rules)} = {c.spec.group : c \in crds}
           /\ \A i, j \in 1..Len(rules) : rules[i].group = rules[j].group => i = j
           /\ \A i \in 1..Len(rules) :
                  /\ rules[i].resources =
                         {c.spec.names.plural : c \in {d \in crds : d.spec.group = rules[i].group}}
                  /\ rules[i].verbs =
                         {"get", "list", "watch", "create", "update", "patch", "delete"}
           /\ crds = {} => rules = <<>>

C17_Witness ==
    /\ pc = "extracted"
    /\ Len(arg.templates) = 3
    /\ arg.templates[1] = Crd("example.com", "widgets")
    /\ arg.templates[2] = Crd("other.io", "things")
    /\ arg.templates[3] = Crd("example.com", "gadgets")
    /\ Len(result.rbac_rules) = 2
    /\ result.rbac_rules[1].resources = {"widgets", "gadgets"}

SeqToSet(s) == {s[i] : i \in 1..Len(s)}

\* C18: for an empty rule set the returned list is empty; otherwise it holds
\* exactly a ClusterRole named role_name with one rule per API group of the
\* rule set, then a ClusterRoleBinding named role_name-binding whose roleRef
\* names the ClusterRole and whose only subject is ServiceAccount
\* klusterlet-work-sa in namespace open-cluster-management-agent.
C18_RoleThenBindingOrNothing ==
    pc = "created" =>
        LET rules == result.rbac_rules
            manifests == result.manifests
        IN IF rules = <<>> THEN manifests = <<>>
           ELSE /\ Len(manifests) = 2
                /\ manifests[1].kind = "ClusterRole"
                /\ manifests[1].metadata.name = arg.role_name
                /\ Len(manifests[1].rules) = Len(rules)
                /\ \A i \in 1..Len(rules) :
                       \E j \in 1..Len(manifests[1].rules) :
                           /\ manifests[1].rules[j].apiGroups = <<rules[i].group>>
                           /\ SeqToSet(manifests[1].rules[j].resources) = rules[i].resources
                           /\ SeqToSet(manifests[1].rules[j].verbs) = rules[i].verbs
                /\ manifests[2].kind = "ClusterRoleBinding"
                /\ manifests[2].metadata.name = arg.role_name \o "-binding"
                /\ manifests[2].roleRef.kind = "ClusterRole"
                /\ manifests[2].roleRef.name = manifests[1].metadata.name
                /\ manifests[2].subjects =
                       <<[kind |-> "ServiceAccount",
                          name |-> "klusterlet-work-sa",
                          namespace |-> "open-cluster-management-agent"]>>

C18_Witness ==
    /\ pc = "created"
    /\ Len(result.rbac_rules) = 2
    /\ Len(result.manifests) = 2
    /\ Len(result.manifests[1].rules) = 2
    /\ result.manifests[2].metadata.name = "mw-klusterlet-crd-access-binding"

(***************************************************************************)
(* ocm_sandbox/commands/load_images.py: the loading strategies.            *)
(* run_command returns the completed process of a command; the return code *)
(* is the environment's answer.  The kind and docker executables exist, as *)
(* load_images_command has checked before any image is loaded.             *)
(***************************************************************************)
ReturnCodes == {0, 1}

\* ch in s
Contains(s, ch) == \E i \in 1..Len(s) : SubSeq(s, i, i) = ch

\* s.split(ch)[0]
SplitHead(s, ch) ==
    IF Contains(s, ch)
    THEN LET first == CHOOSE i \in 1..Len(s) :
                          /\ SubSeq(s, i, i) = ch
                          /\ \A j \in 1..(i - 1) : SubSeq(s, j, j) # ch
         IN SubSeq(s, 1, first - 1)
    ELSE s

\* s.replace(old, new) for one character old
RECURSIVE replace(_, _, _)
replace(s, old, new) ==
    IF Len(s) = 0 THEN ""
    ELSE (IF SubSeq(s, 1, 1) = old THEN new ELSE SubSeq(s, 1, 1))
         \o replace(SubSeq(s, 2, Len(s)), old, new)

\* if os.path.exists(path): os.remove(path)
\* RemoveIfExists leaving the file where it is
RemoveIfExistsKeeps(fs, path) == fs

RemoveIfExists(fs, path) == fs \ {path}

\* f"/tmp/kind-image-{safe_name}.tar"
TempArchive(img) ==
    "/tmp/kind-image-" \o replace(replace(img, "/", "_"), ":", "_") \o ".tar"

\* the name tempfile.NamedTemporaryFile(suffix=".Dockerfile") gives
TempDockerfile == "/tmp/tmpa1b2c3d4.Dockerfile"

load_image_direct(img, cluster, rc) ==
    [ok |-> rc = 0, returncodes |-> <<rc>>,
     commands |-> << <<"kind", "load", "docker-image", img, "--name", cluster>> >>]

\* save_wrote: docker save left a file although it failed
load_image_archive(img, cluster, fs, save_rc, save_wrote, load_rc) ==
    LET temp_file == TempArchive(img)
        save == <<"docker", "save", img, "-o", temp_file>>
        load == <<"kind", "load", "image-archive", temp_file, "--name", cluster>>
        saved == IF save_rc = 0 \/ save_wrote THEN fs \cup {temp_file} ELSE fs
    IN IF save_rc # 0
       THEN [ok |-> FALSE, returncodes |-> <<save_rc>>, commands |-> <<save>>,
             tmp_files |-> RemoveIfExists(saved, temp_file)]
       ELSE [ok |-> load_rc = 0, returncodes |-> <<save_rc, load_rc>>,
             commands |-> <<save, load>>,
             tmp_files |-> RemoveIfExists(saved, temp_file)]

load_image_platform_pull(img, cluster, plat, pull_rc, load_rc) ==
    LET platform_image == img \o "-kind-temp"
        pull == <<"docker", "pull", "--platform", plat, img>>
        tag == <<"docker", "tag", img, platform_image>>
        load == <<"kind", "load", "docker-image", platform_image, "--name", cluster>>
        rmi == <<"docker", "rmi", platform_image>>
    IN IF ~Contains(SplitHead(img, ":"), ".") /\ ~Contains(SplitHead(img, ":"), "/")
       THEN [ok |-> FALSE, returncodes |-> <<>>, commands |-> <<>>]
       ELSE IF pull_rc # 0
       THEN [ok |-> FALSE, returncodes |-> <<pull_rc>>, commands |-> <<pull, rmi>>]
       ELSE [ok |-> load_rc = 0, returncodes |-> <<pull_rc, load_rc>>,
             commands |-> <<pull, tag, load, rmi>>]

load_image_buildx(img, cluster, plat, fs, version_rc, build_rc, load_rc) ==
    LET version == <<"docker", "buildx", "version">>
        build == <<"docker", "buildx", "build", "--platform", plat, "--load", "-t",
                   img \o "-kind", "-f", TempDockerfile, ".">>
        load == <<"kind", "load", "docker-image", img \o "-kind", "--name", cluster>>
        rmi == <<"docker", "rmi", img \o "-kind">>
        written == fs \cup {TempDockerfile}
    IN IF version_rc # 0
       THEN [ok |-> FALSE, returncodes |-> <<version_rc>>, commands |-> <<version>>,
             tmp_files |-> fs]
       ELSE IF build_rc # 0
       THEN [ok |-> FALSE, returncodes |-> <<version_rc, build_rc>>,
             commands |-> <<version, build>>,
             tmp_files |-> RemoveIfExists(written, TempDockerfile)]
       ELSE [ok |-> load_rc = 0, returncodes |-> <<version_rc, build_rc, load_rc>>,
             commands |-> <<version, build, load, rmi>>,
             tmp_files |-> RemoveIfExists(written, TempDockerfile)]

(***************************************************************************)
(* load_image_with_workaround: one step per strategy.                      *)
(***************************************************************************)
\* AfterStrategy going on to the next strategy whatever the strategy returned
AfterStrategyKeepsTrying(ok, next) == next

\* if load_image_x(...): return True
AfterStrategy(ok, next) == IF ok THEN "returned" ELSE next

StrategyDone(strategy, r, fs, next) ==
    /\ attempts' = Append(attempts, [strategy |-> strategy, ok |-> r.ok,
                                     returncodes |-> r.returncodes])
    /\ commands' = commands \o r.commands
    /\ tmp_files' = fs
    /\ load_pc' = AfterStrategy(r.ok, next)
    /\ load_result' = IF r.ok THEN "True"
                      ELSE IF next = "returned" THEN "False"
                      ELSE load_result
    /\ UNCHANGED <<image, target_cluster, platform>>
    /\ UNCHANGED <<wrapVars, pc, callVars, cliVars, configVars>>

LoadDirect ==
    /\ load_pc = "direct"
    /\ \E rc \in ReturnCodes :
           \E r \in {load_image_direct(image, target_cluster, rc)} :
               StrategyDone("direct", r, tmp_files, "archive")

LoadArchive ==
    /\ load_pc = "archive"
    /\ \E save_rc, load_rc \in ReturnCodes, save_wrote \in BOOLEAN :
           \E r \in {load_image_archive(image, target_cluster, tmp_files,
                                        save_rc, save_wrote, load_rc)} :
               StrategyDone("archive", r, r.tmp_files, "platform_pull")

LoadPlatformPull ==
    /\ load_pc = "platform_pull"
    /\ \E pull_rc, load_rc \in ReturnCodes :
           \E r \in {load_image_platform_pull(image, target_cluster, platform,
                                              pull_rc, load_rc)} :
               StrategyDone("platform_pull", r, tmp_files, "buildx")

\* the last strategy; when it fails too the function reports and returns False
LoadBuildx ==
    /\ load_pc = "buildx"
    /\ \E version_rc, build_rc, load_rc \in ReturnCodes :
           \E r \in {load_image_buildx(image, target_cluster, platform, tmp_files,
                                       version_rc, build_rc, load_rc)} :
               StrategyDone("buildx", r, r.tmp_files, "returned")

(***************************************************************************)
(* SpecLoad: load_image_with_workaround called with one image.             *)
(***************************************************************************)
LoadImages == {"nginx:latest", "ghcr.io/org/app:v1", "localhost:5000/app:dev"}

ClusterNames == {"ocm-hub", "ocm-spoke1"}

Platforms == {"linux/amd64", "linux/arm64"}

InitLoad ==
    /\ image \in LoadImages
    /\ target_cluster \in ClusterNames
    /\ platform \in Platforms
    /\ load_pc = "direct"
    /\ load_result = "<None>"
    /\ attempts = <<>> /\ commands = <<>> /\ tmp_files = {}
    /\ pc = "load"
    /\ NoWrapCall
    /\ NoCall
    /\ NoConfigCall
    /\ NoCliCall

NextLoad == LoadDirect \/ LoadArchive \/ LoadPlatformPull \/ LoadBuildx

SpecLoad == InitLoad /\ [][NextLoad]_vars

StrategyOrder == <<"direct", "archive", "platform_pull", "buildx">>

\* C19: the strategies are started in the order direct, archive, platform
\* pull, buildx; a strategy is started only after every earlier one returned
\* failure, none is started after a success; the call returns True exactly
\* when one strategy succeeded and False exactly when all four failed.
C19_StrategiesInOrderUntilFirstSuccess ==
    /\ Len(attempts) <= Len(StrategyOrder)
    /\ \A i \in 1..Len(attempts) : attempts[i].strategy = StrategyOrder[i]
    /\ \A i \in 1..(Len(attempts) - 1) : ~attempts[i].ok
    /\ load_pc # "returned" =>
           /\ load_result = "<None>"
           /\ \A i \in 1..Len(attempts) : ~attempts[i].ok
    /\ load_pc = "returned" =>
           /\ load_result \in {"True", "False"}
           /\ load_result = "True" <=> \E i \in 1..Len(attempts) : attempts[i].ok
           /\ load_result = "False" <=>
                  /\ Len(attempts) = Len(StrategyOrder)
                  /\ \A i \in 1..Len(attempts) : ~attempts[i].ok

C19_Witness ==
    /\ load_pc = "returned"
    /\ load_result = "True"
    /\ Len(attempts) = 3
    /\ ~attempts[1].ok /\ ~attempts[2].ok /\ attempts[3].ok

(***************************************************************************)
(* load_images_from_config.  A value yaml.safe_load returns is a record    *)
(* tagged with its Python type; the mapping of an images entry holds plain *)
(* strings.                                                                *)
(***************************************************************************)
PyNone == [type |-> "NoneType"]
PyInt(n) == [type |-> "int", int |-> n]
PyStr(text) == [type |-> "str", str |-> text]
PyList(items) == [type |-> "list", list |-> items]
PyDict(d) == [type |-> "dict", dict |-> d]

\* bool(v)
PyTruthy(v) ==
    CASE v.type = "NoneType" -> FALSE
      [] v.type = "int" -> v.int # 0
      [] v.type = "str" -> v.str # ""
      [] v.type = "list" -> v.list # <<>>
      [] v.type = "dict" -> v.dict # EmptyDict

\* sub in text, for strings
IsSubstring(sub, text) ==
    \E i \in 1..(Len(text) - Len(sub) + 1) : SubSeq(text, i, i + Len(sub) - 1) = sub

\* "key in v" raises TypeError: v is not iterable
InRaises(v) == v.type \in {"int", "NoneType"}

\* key in v, for a string key
PyIn(key, v) ==
    CASE v.type = "str" -> IsSubstring(key, v.str)
      [] v.type = "list" -> \E i \in 1..Len(v.list) : v.list[i] = PyStr(key)
      [] v.type = "dict" -> key \in DOMAIN v.dict

\* v[key] raises TypeError for a string key: v is a str or a list
StrIndexRaises(v) == v.type \in {"str", "list"}

\* load_images_from_config up to the loop: return 1, raise, or enter the loop
ValidateConfig(yaml_ok, file) ==
    IF ~yaml_ok THEN [outcome |-> "return", code |-> 1]
    ELSE IF ~file.exists THEN [outcome |-> "return", code |-> 1]
    ELSE IF ~file.parses THEN [outcome |-> "return", code |-> 1]
    ELSE LET config == file.value
         IN IF ~PyTruthy(config) THEN [outcome |-> "return", code |-> 1]
            ELSE IF InRaises(config) THEN [outcome |-> "raise"]
            ELSE IF ~PyIn("images", config) THEN [outcome |-> "return", code |-> 1]
            ELSE IF StrIndexRaises(config) THEN [outcome |-> "raise"]
            ELSE IF config.dict.images.type # "list"
                 THEN [outcome |-> "return", code |-> 1]
                 ELSE [outcome |-> "loop", images |-> config.dict.images.list]

\* ItemTarget giving every item the default cluster
ItemTargetDefaultCluster(item, default_cluster) ==
    IF item.type = "str"
    THEN [skip |-> FALSE, image |-> item.str, target_cluster |-> default_cluster]
    ELSE IF item.type = "dict"
    THEN IF ~Truthy(Get(item.dict, "image", None))
         THEN [skip |-> TRUE]
         ELSE [skip |-> FALSE, image |-> item.dict.image,
               target_cluster |-> default_cluster]
    ELSE [skip |-> TRUE]

\* ItemTarget with an invalid entry processed as an unnamed image
ItemTargetNeverSkips(item, default_cluster) ==
    IF item.type = "str"
    THEN [skip |-> FALSE, image |-> item.str, target_cluster |-> default_cluster]
    ELSE IF item.type = "dict" /\ Truthy(Get(item.dict, "image", None))
    THEN [skip |-> FALSE, image |-> item.dict.image,
          target_cluster |-> Get(item.dict, "cluster", default_cluster)]
    ELSE [skip |-> FALSE, image |-> "", target_cluster |-> default_cluster]

\* the image and the target cluster of an item, or that the item is skipped
ItemTarget(item, default_cluster) ==
    IF item.type = "str"
    THEN [skip |-> FALSE, image |-> item.str, target_cluster |-> default_cluster]
    ELSE IF item.type = "dict"
    THEN IF ~Truthy(Get(item.dict, "image", None))
         THEN [skip |-> TRUE]
         ELSE [skip |-> FALSE, image |-> item.dict.image,
               target_cluster |-> Get(item.dict, "cluster", default_cluster)]
    ELSE [skip |-> TRUE]

\* check_kind_cluster: `kind get clusters` succeeded and lists the cluster
check_kind_cluster(cluster, rc, clusters) == rc = 0 /\ cluster \in clusters

ConfigValidate ==
    /\ config_pc = "start"
    /\ \E v \in {ValidateConfig(yaml_available, config_file)} :
           /\ config_pc' = IF v.outcome = "return" THEN "returned"
                           ELSE IF v.outcome = "raise" THEN "raised"
                           ELSE "loop"
           /\ config_result' = IF v.outcome = "return" THEN <<v.code>> ELSE <<>>
           /\ images' = IF v.outcome = "loop" THEN v.images ELSE <<>>
           /\ item_index' = IF v.outcome = "loop" THEN 1 ELSE 0
    /\ UNCHANGED <<yaml_available, config_file, cluster_name, kind_clusters,
                   loaded_count, failed_count, skipped_count, cluster_checks, loads>>
    /\ UNCHANGED <<wrapVars, pc, callVars, cliVars, loadVars>>

ConfigNextItem ==
    /\ config_pc = "loop"
    /\ item_index <= Len(images)
    /\ \E t \in {ItemTarget(images[item_index], cluster_name)} :
           IF t.skip
           THEN /\ skipped_count' = skipped_count + 1
                /\ item_index' = item_index + 1
                /\ UNCHANGED <<config_pc, failed_count, cluster_checks, loadVars>>
           ELSE \E rc \in ReturnCodes :
                /\ cluster_checks' =
                       Append(cluster_checks,
                              [cluster |-> t.target_cluster,
                               found |-> check_kind_cluster(t.target_cluster, rc,
                                                            kind_clusters)])
                /\ IF ~check_kind_cluster(t.target_cluster, rc, kind_clusters)
                   THEN /\ failed_count' = failed_count + 1
                        /\ item_index' = item_index + 1
                        /\ UNCHANGED <<config_pc, loadVars>>
                   ELSE /\ image' = t.image
                        /\ target_cluster' = t.target_cluster
                        /\ load_pc' = "direct"
                        /\ load_result' = "<None>"
                        /\ attempts' = <<>>
                        /\ commands' = <<>>
                        /\ config_pc' = "loading"
                        /\ UNCHANGED <<platform, tmp_files, failed_count, item_index>>
                /\ UNCHANGED skipped_count
    /\ UNCHANGED <<yaml_available, config_file, cluster_name, kind_clusters, images,
                   loaded_count, loads, config_result>>
    /\ UNCHANGED <<wrapVars, pc, callVars, cliVars>>

ConfigAfterLoad ==
    /\ config_pc = "loading"
    /\ load_pc = "returned"
    /\ loads' = Append(loads, [image |-> image, target_cluster |-> target_cluster,
                               platform |-> platform, ok |-> load_result = "True"])
    /\ loaded_count' = IF load_result = "True" THEN loaded_count + 1 ELSE loaded_count
    /\ failed_count' = IF load_result = "True" THEN failed_count ELSE failed_count + 1
    /\ item_index' = item_index + 1
    /\ config_pc' = "loop"
    /\ image' = "" /\ target_cluster' = ""
    /\ load_pc' = "idle" /\ load_result' = "<None>"
    /\ attempts' = <<>> /\ commands' = <<>>
    /\ UNCHANGED <<platform, tmp_files>>
    /\ UNCHANGED <<yaml_available, config_file, cluster_name, kind_clusters, images,
                   skipped_count, cluster_checks, config_result>>
    /\ UNCHANGED <<wrapVars, pc, callVars, cliVars>>

ConfigReturn ==
    /\ config_pc = "loop"
    /\ item_index > Len(images)
    /\ config_result' = <<IF failed_count = 0 THEN 0 ELSE 1>>
    /\ config_pc' = "returned"
    /\ UNCHANGED <<yaml_available, config_file, cluster_name, kind_clusters, images,
                   item_index, loaded_count, failed_count, skipped_count,
                   cluster_checks, loads>>
    /\ UNCHANGED <<wrapVars, pc, callVars, cliVars, loadVars>>

(***************************************************************************)
(* SpecConfig: load_images_from_config called with one configuration file. *)
(***************************************************************************)
ImageItems ==
    {PyStr("nginx:latest"),
     PyDict([image |-> "ghcr.io/org/app:v1", cluster |-> "ocm-spoke1"]),
     PyDict([image |-> "nginx:latest"]),
     PyDict([cluster |-> "ocm-spoke1"]),
     PyInt(7)}

ConfigValues ==
    {PyNone, PyInt(42), PyInt(0), PyStr("images:nginx"), PyStr("nginx:latest"),
     PyList(<<PyStr("nginx:latest")>>), PyList(<<PyStr("images")>>),
     PyDict(EmptyDict),
     PyDict([wrong_key |-> PyList(<<PyStr("nginx:alpine")>>)]),
     PyDict([images |-> PyNone]),
     PyDict([images |-> PyStr("nginx:latest")]),
     PyDict([images |-> PyDict([image |-> "nginx:latest"])])}
    \cup {PyDict([images |-> PyList(items)]) : items \in SeqsUpTo(ImageItems, MaxImages)}

ConfigFiles ==
    {[exists |-> FALSE], [exists |-> TRUE, parses |-> FALSE]}
    \cup {[exists |-> TRUE, parses |-> TRUE, value |-> v] : v \in ConfigValues}

InitConfig ==
    /\ yaml_available \in BOOLEAN
    /\ config_file \in ConfigFiles
    /\ cluster_name = "ocm-hub"
    /\ kind_clusters \in {{"ocm-hub"}, {"ocm-hub", "ocm-spoke1"}}
    /\ config_pc = "start"
    /\ images = <<>> /\ item_index = 0
    /\ loaded_count = 0 /\ failed_count = 0 /\ skipped_count = 0
    /\ cluster_checks = <<>> /\ loads = <<>> /\ config_result = <<>>
    /\ image = "" /\ target_cluster = "" /\ platform = "linux/amd64"
    /\ load_pc = "idle" /\ load_result = "<None>"
    /\ attempts = <<>> /\ commands = <<>> /\ tmp_files = {}
    /\ pc = "config"
    /\ NoWrapCall
    /\ NoCall
    /\ NoCliCall

NextConfig ==
    \/ ConfigValidate
    \/ ConfigNextItem
    \/ LoadDirect
    \/ LoadArchive
    \/ LoadPlatformPull
    \/ LoadBuildx
    \/ ConfigAfterLoad
    \/ ConfigReturn

SpecConfig == InitConfig /\ [][NextConfig]_vars

\* the file has no usable images list: it is missing, does not parse, is
\* empty, has no images key, or its images value is no list
HasNoImagesList(file) ==
    \/ ~file.exists
    \/ ~file.parses
    \/ file.value = PyNone
    \/ file.value.type # "dict"
    \/ "images" \notin DOMAIN file.value.dict
    \/ file.value.dict.images.type # "list"

\* C20: the call returns 1, with no cluster check and no image load, when the
\* configuration file is missing, is not parseable, is empty, has no images
\* key or has an images value that is no list; with an empty images list it
\* returns 0 and loads nothing.
C20_InvalidConfigReturnsOne ==
    /\ HasNoImagesList(config_file) =>
           /\ config_pc \in {"start", "returned"}
           /\ config_pc = "returned" => config_result = <<1>>
           /\ cluster_checks = <<>> /\ loads = <<>> /\ load_pc = "idle"
    /\ (yaml_available /\ ~HasNoImagesList(config_file)
            /\ config_file.value.dict.images.list = <<>>) =>
           /\ config_pc \in {"start", "loop", "returned"}
           /\ config_pc = "returned" => config_result = <<0>>
           /\ cluster_checks = <<>> /\ loads = <<>> /\ load_pc = "idle"

\* the call went through the loop and returned
ReturnedFromLoop ==
    /\ config_pc = "returned"
    /\ yaml_available
    /\ ~HasNoImagesList(config_file)

\* the entries of an images list that name an image, each with its cluster
RECURSIVE ValidEntries(_, _)
ValidEntries(list, default_cluster) ==
    IF list = <<>> THEN <<>>
    ELSE LET e == Head(list)
             rest == ValidEntries(Tail(list), default_cluster)
         IN IF e.type = "str"
            THEN <<[image |-> e.str, cluster |-> default_cluster]>> \o rest
            ELSE IF e.type = "dict" /\ "image" \in DOMAIN e.dict /\ e.dict.image # ""
            THEN <<[image |-> e.dict.image,
                    cluster |-> IF "cluster" \in DOMAIN e.dict THEN e.dict.cluster
                                ELSE default_cluster]>> \o rest
            ELSE rest

\* the entries whose cluster check found the cluster
RECURSIVE FoundEntries(_, _)
FoundEntries(entries, checks) ==
    IF entries = <<>> \/ checks = <<>> THEN <<>>
    ELSE IF Head(checks).found
    THEN <<Head(entries)>> \o FoundEntries(Tail(entries), Tail(checks))
    ELSE FoundEntries(Tail(entries), Tail(checks))

\* C21: for a configuration with an images list, every entry that names an
\* image has its cluster checked, in list order and whatever failed before,
\* on its own cluster when it gives one and on the default cluster otherwise;
\* an image is loaded exactly when its check found the cluster; the call
\* returns 0 exactly when every check found its cluster and every load
\* succeeded, and 1 otherwise.
C21_EveryEntryProcessedInOrder ==
    ReturnedFromLoop =>
        LET entries == ValidEntries(config_file.value.dict.images.list, cluster_name)
            found == FoundEntries(entries, cluster_checks)
        IN /\ Len(cluster_checks) = Len(entries)
           /\ \A i \in 1..Len(entries) : cluster_checks[i].cluster = entries[i].cluster
           /\ Len(loads) = Len(found)
           /\ \A j \in 1..Len(found) :
                  /\ loads[j].image = found[j].image
                  /\ loads[j].target_cluster = found[j].cluster
           /\ config_result \in {<<0>>, <<1>>}
           /\ config_result = <<0>> <=>
                  /\ \A i \in 1..Len(cluster_checks) : cluster_checks[i].found
                  /\ \A j \in 1..Len(loads) : loads[j].ok

C21_Witness ==
    /\ ReturnedFromLoop
    /\ Len(images) = 2
    /\ Len(cluster_checks) = 2
    /\ ~cluster_checks[1].found
    /\ cluster_checks[1].cluster = "ocm-hub"
    /\ cluster_checks[2].found
    /\ cluster_checks[2].cluster = "ocm-spoke1"
    /\ Len(loads) = 1
    /\ loads[1].ok
    /\ config_result = <<1>>

(***************************************************************************)
(* The commands of the CLI: load_images_command and wrap_command.  arg     *)
(* holds the command line, pc the position in the command.  An exception   *)
(* that leaves a command ends the process with exit code 1.                *)
(***************************************************************************)
\* ImagesExitCode ending with 0 whatever failed
ImagesExitCodeZero(failed) == 0

\* if failed_count > 0: raise typer.Exit(1); otherwise the command returns
ImagesExitCode(failed) == IF failed > 0 THEN 1 ELSE 0

\* load_images_command up to the choice between --config and the images
LoadImagesStart ==
    /\ pc = "start"
    /\ arg.command = "load-images"
    /\ IF ~which_kind \/ ~which_docker
       THEN /\ exit_code' = <<1>>
            /\ pc' = "exited"
            /\ UNCHANGED <<cluster_checks, config_pc, images, item_index>>
       ELSE \E rc \in ReturnCodes :
            /\ cluster_checks' =
                   Append(cluster_checks,
                          [cluster |-> cluster_name,
                           found |-> check_kind_cluster(cluster_name, rc, kind_clusters)])
            /\ IF ~check_kind_cluster(cluster_name, rc, kind_clusters)
               THEN /\ exit_code' = <<1>>
                    /\ pc' = "exited"
                    /\ UNCHANGED <<config_pc, images, item_index>>
               ELSE IF arg.config
               THEN /\ config_pc' = "start"
                    /\ pc' = "config"
                    /\ UNCHANGED <<exit_code, images, item_index>>
               ELSE IF arg.images = <<>>
               THEN /\ exit_code' = <<1>>
                    /\ pc' = "exited"
                    /\ UNCHANGED <<config_pc, images, item_index>>
               ELSE /\ images' = arg.images
                    /\ item_index' = 1
                    /\ pc' = "images"
                    /\ UNCHANGED <<exit_code, config_pc>>
    /\ UNCHANGED <<yaml_available, config_file, cluster_name, kind_clusters,
                   loaded_count, failed_count, skipped_count, loads, config_result>>
    /\ UNCHANGED <<which_kind, which_docker, input_exists>>
    /\ UNCHANGED <<wrapVars, arg, result, loadVars>>

\* raise typer.Exit(load_images_from_config(...))
LoadImagesAfterConfig ==
    /\ pc = "config"
    /\ config_pc \in {"returned", "raised"}
    /\ exit_code' = IF config_pc = "returned" THEN config_result ELSE <<1>>
    /\ pc' = "exited"
    /\ UNCHANGED <<which_kind, which_docker, input_exists>>
    /\ UNCHANGED <<wrapVars, callVars, loadVars, configVars>>

\* for image in images: load_image_with_workaround(image, cluster, platform)
LoadImagesNextImage ==
    /\ pc = "images"
    /\ item_index <= Len(images)
    /\ image' = images[item_index]
    /\ target_cluster' = cluster_name
    /\ load_pc' = "direct"
    /\ load_result' = "<None>"
    /\ attempts' = <<>>
    /\ commands' = <<>>
    /\ pc' = "loading"
    /\ UNCHANGED <<platform, tmp_files>>
    /\ UNCHANGED <<wrapVars, callVars, configVars, cliVars>>

LoadImagesAfterLoad ==
    /\ pc = "loading"
    /\ load_pc = "returned"
    /\ loads' = Append(loads, [image |-> image, target_cluster |-> target_cluster,
                               platform |-> platform, ok |-> load_result = "True"])
    /\ loaded_count' = IF load_result = "True" THEN loaded_count + 1 ELSE loaded_count
    /\ failed_count' = IF load_result = "True" THEN failed_count ELSE failed_count + 1
    /\ item_index' = item_index + 1
    /\ pc' = "images"
    /\ image' = "" /\ target_cluster' = ""
    /\ load_pc' = "idle" /\ load_result' = "<None>"
    /\ attempts' = <<>> /\ commands' = <<>>
    /\ UNCHANGED <<platform, tmp_files>>
    /\ UNCHANGED <<yaml_available, config_file, cluster_name, kind_clusters, config_pc,
                   images, skipped_count, cluster_checks, config_result>>
    /\ UNCHANGED <<wrapVars, callVars, cliVars>>

LoadImagesDone ==
    /\ pc = "images"
    /\ item_index > Len(images)
    /\ exit_code' = <<ImagesExitCode(failed_count)>>
    /\ pc' = "exited"
    /\ UNCHANGED <<which_kind, which_docker, input_exists>>
    /\ UNCHANGED <<wrapVars, callVars, loadVars, configVars>>

\* wrap_command
Wrap ==
    /\ pc = "start"
    /\ arg.command = "wrap"
    /\ IF ~input_exists
       THEN /\ exit_code' = <<1>>
            /\ UNCHANGED <<helm_templates, files, output_files>>
       ELSE \E r \in {generate_mwrs_files(helm_templates, name, namespace, placement,
                                          output_prefix)} :
            /\ helm_templates' = r.templates
            /\ files' = WriteFiles(files, r.written)
            /\ output_files' = IF r.raised THEN output_files ELSE r.output_files
            /\ exit_code' = IF r.raised THEN <<1>> ELSE <<0>>
    /\ pc' = "exited"
    /\ UNCHANGED <<workload, max_size, split_workloads, name, namespace, placement,
                   output_prefix, hash_seed, input_docs, runs>>
    /\ UNCHANGED <<which_kind, which_docker, input_exists>>
    /\ UNCHANGED <<callVars, loadVars, configVars>>

(***************************************************************************)
(* SpecCli: one command line of ocm-sandbox.                               *)
(***************************************************************************)
CliImages == {"nginx:latest", "ghcr.io/org/app:v1"}

CliConfigFiles ==
    {[exists |-> FALSE],
     [exists |-> TRUE, parses |-> TRUE, value |-> PyInt(42)],
     [exists |-> TRUE, parses |-> TRUE, value |-> PyDict([images |-> PyList(<<>>)])],
     [exists |-> TRUE, parses |-> TRUE,
      value |-> PyDict([images |-> PyList(<<PyStr("nginx:latest")>>)])],
     [exists |-> TRUE, parses |-> TRUE,
      value |-> PyDict([images |-> PyList(<<PyInt(7)>>)])]}

CliInputs ==
    {<<>>, <<Deployment(SmallBytes)>>, <<Crd("example.com", "widgets"),
     Deployment(SmallBytes)>>, <<Deployment(SmallBytes), MalformedCrd>>}

InitLoadImages ==
    /\ arg \in [command : {"load-images"},
                images : SeqsUpTo(CliImages, MaxCliImages),
                config : BOOLEAN]
    /\ which_kind \in BOOLEAN
    /\ which_docker \in BOOLEAN
    /\ cluster_name \in {"ocm-hub", "ocm-spoke1"}
    /\ kind_clusters = {"ocm-hub"}
    /\ platform = "linux/amd64"
    /\ yaml_available = TRUE
    /\ config_file \in IF arg.config THEN CliConfigFiles ELSE {<<>>}
    /\ input_exists = TRUE
    /\ NoWrapCall

InitWrap ==
    /\ arg = [command |-> "wrap"]
    /\ input_exists \in BOOLEAN
    /\ input_docs \in IF input_exists THEN CliInputs ELSE {<<>>}
    /\ helm_templates = input_docs
    /\ name = "mw" /\ namespace = "ns" /\ placement = "p" /\ output_prefix = "mwrs"
    /\ hash_seed \in HashSeeds
    /\ files = <<>> /\ output_files = <<>> /\ runs = <<>>
    /\ workload = <<>> /\ max_size = 0 /\ split_workloads = <<>>
    /\ which_kind = TRUE /\ which_docker = TRUE
    /\ cluster_name = "" /\ kind_clusters = {} /\ platform = ""
    /\ yaml_available = TRUE /\ config_file = <<>>

InitCli ==
    /\ InitLoadImages \/ InitWrap
    /\ pc = "start"
    /\ result = <<>>
    /\ exit_code = <<>>
    /\ config_pc = "idle" /\ images = <<>> /\ item_index = 0
    /\ loaded_count = 0 /\ failed_count = 0 /\ skipped_count = 0
    /\ cluster_checks = <<>> /\ loads = <<>> /\ config_result = <<>>
    /\ image = "" /\ target_cluster = ""
    /\ load_pc = "idle" /\ load_result = "<None>"
    /\ attempts = <<>> /\ commands = <<>> /\ tmp_files = {}

NextCli ==
    \/ LoadImagesStart
    \/ LoadImagesAfterConfig
    \/ LoadImagesNextImage
    \/ LoadImagesAfterLoad
    \/ LoadImagesDone
    \/ Wrap
    \/ ConfigValidate
    \/ ConfigNextItem
    \/ ConfigAfterLoad
    \/ ConfigReturn
    \/ LoadDirect
    \/ LoadArchive
    \/ LoadPlatformPull
    \/ LoadBuildx

SpecCli == InitCli /\ [][NextCli]_vars

\* the load-images command went through all its images
AllImagesAttempted ==
    /\ Len(loads) = Len(arg.images)
    /\ \A i \in 1..Len(loads) : loads[i].image = arg.images[i]

\* C22: a command that has ended has exit code 0 or 1.  load-images ends with
\* 1 when kind or docker is missing, when the cluster does not exist, when
\* neither a configuration nor an image is given, and, after every image has
\* been attempted, when at least one image failed to load; it ends with 0
\* only when all this went well.  wrap ends with 1 and writes no file when its
\* input file does not exist, and ends with 0 only when the file exists and
\* generate_mwrs_files returned.
C22_NonZeroExitOnFailure ==
    pc = "exited" =>
        /\ exit_code \in {<<0>>, <<1>>}
        /\ arg.command = "load-images" =>
            /\ (~which_kind \/ ~which_docker) =>
                   exit_code = <<1>> /\ cluster_checks = <<>> /\ loads = <<>>
            /\ (which_kind /\ which_docker /\ ~cluster_checks[1].found) =>
                   exit_code = <<1>> /\ loads = <<>>
            /\ (~arg.config /\ arg.images = <<>>) => exit_code = <<1>>
            /\ (~arg.config /\ (\E i \in 1..Len(loads) : ~loads[i].ok)) =>
                   exit_code = <<1>> /\ AllImagesAttempted
            /\ exit_code = <<0>> =>
                   /\ which_kind /\ which_docker
                   /\ \A i \in 1..Len(cluster_checks) : cluster_checks[i].found
                   /\ \A i \in 1..Len(loads) : loads[i].ok
                   /\ arg.config => config_result = <<0>>
                   /\ ~arg.config => arg.images # <<>> /\ AllImagesAttempted
        /\ arg.command = "wrap" =>
            /\ ~input_exists => exit_code = <<1>> /\ files = <<>> /\ output_files = <<>>
            /\ exit_code = <<0>> =>
                   /\ input_exists
                   /\ ~HasMalformedCrd(input_docs)

C22_Witness ==
    /\ pc = "exited"
    /\ arg.command = "load-images"
    /\ ~arg.config
    /\ Len(arg.images) = 2
    /\ Len(loads) = 2
    /\ ~loads[1].ok
    /\ loads[2].ok
    /\ exit_code = <<1>>

(***************************************************************************)
(* ocm_sandbox/commands/scaffold.py: generate_scaffolding_manifests.       *)
(***************************************************************************)
\* NamespaceMwrsName without "-namespace"
NamespaceMwrsNameShort(ns) == ns \o "-mwrs"

\* f"{namespace}-namespace-mwrs"
NamespaceMwrsName(ns) == ns \o "-namespace-mwrs"

generate_scaffolding_manifests(nm, ns, clusterset, pl) ==
    <<[apiVersion |-> "cluster.open-cluster-management.io/v1beta2",
       kind |-> "ManagedClusterSetBinding",
       metadata |-> [name |-> nm, namespace |-> ns],
       spec |-> [clusterSet |-> clusterset]],
      [apiVersion |-> "cluster.open-cluster-management.io/v1beta1",
       kind |-> "Placement",
       metadata |-> [name |-> pl, namespace |-> ns],
       spec |-> [clusterSets |-> <<clusterset>>]],
      [apiVersion |-> "work.open-cluster-management.io/v1alpha1",
       kind |-> "ManifestWorkReplicaSet",
       metadata |-> [name |-> NamespaceMwrsName(ns), namespace |-> ns],
       spec |-> [placementRefs |-> <<[name |-> pl]>>,
                 manifestWorkTemplate |->
                     [workload |->
                         [manifests |-> <<[apiVersion |-> "v1",
                                           kind |-> "Namespace",
                                           metadata |-> [name |-> ns]]>>]]]]>>

(***************************************************************************)
(* SpecScaffold: generate_scaffolding_manifests applied to four names.     *)
(***************************************************************************)
ScaffoldNames == {"default", "test-namespace", "custom-set"}

InitScaffold ==
    /\ arg \in [name : ScaffoldNames, namespace : ScaffoldNames,
                clusterset : ScaffoldNames, placement : ScaffoldNames]
    /\ result = <<>>
    /\ pc = "start"
    /\ NoWrapCall
    /\ NoLoadCall
    /\ NoConfigCall
    /\ NoCliCall

GenerateScaffolding ==
    /\ pc = "start"
    /\ result' = generate_scaffolding_manifests(arg.name, arg.namespace, arg.clusterset,
                                                arg.placement)
    /\ pc' = "done"
    /\ UNCHANGED <<nonCallVars, arg>>

NextScaffold == GenerateScaffolding

SpecScaffold == InitScaffold /\ [][NextScaffold]_vars

\* C23: the call returns exactly three documents, in this order: a
\* ManagedClusterSetBinding with the name, the namespace and the clusterSet; a
\* Placement with the placement name, the namespace and clusterSets holding
\* only the clusterset; a ManifestWorkReplicaSet named
\* <namespace>-namespace-mwrs in the namespace, whose only placementRef names
\* the placement and whose only manifest is the Namespace of that name.
C23_ThreeScaffoldingDocuments ==
    pc = "done" =>
        /\ Len(result) = 3
        /\ result[1].kind = "ManagedClusterSetBinding"
        /\ result[1].apiVersion = "cluster.open-cluster-management.io/v1beta2"
        /\ result[1].metadata = [name |-> arg.name, namespace |-> arg.namespace]
        /\ result[1].spec = [clusterSet |-> arg.clusterset]
        /\ result[2].kind = "Placement"
        /\ result[2].apiVersion = "cluster.open-cluster-management.io/v1beta1"
        /\ result[2].metadata = [name |-> arg.placement, namespace |-> arg.namespace]
        /\ result[2].spec = [clusterSets |-> <<arg.clusterset>>]
        /\ result[3].kind = "ManifestWorkReplicaSet"
        /\ result[3].apiVersion = "work.open-cluster-management.io/v1alpha1"
        /\ result[3].metadata.namespace = arg.namespace
        /\ arg.namespace = "default" =>
               result[3].metadata.name = "default-namespace-mwrs"
        /\ arg.namespace = "test-namespace" =>
               result[3].metadata.name = "test-namespace-namespace-mwrs"
        /\ arg.namespace = "custom-set" =>
               result[3].metadata.name = "custom-set-namespace-mwrs"
        /\ result[3].spec.placementRefs = <<[name |-> arg.placement]>>
        /\ result[3].spec.manifestWorkTemplate.workload.manifests =
               <<[apiVersion |-> "v1", kind |-> "Namespace",
                  metadata |-> [name |-> arg.namespace]]>>
        /\ \A i \in 1..3 : DOMAIN result[i] = {"apiVersion", "kind", "metadata", "spec"}

C23_Witness ==
    /\ pc = "done"
    /\ arg = [name |-> "default", namespace |-> "test-namespace",
              clusterset |-> "custom-set", placement |-> "default"]
    /\ Len(result) = 3
    /\ result[3].metadata.name = "test-namespace-namespace-mwrs"

\* a manifest of the given kind is among the manifests of the wrapper document
DocHoldsKind(doc, kind) ==
    \E j \in 1..Len(DocManifests(doc)) :
        /\ "kind" \in DOMAIN DocManifests(doc)[j]
        /\ DocManifests(doc)[j].kind = kind

\* C24: when a call synthesizes RBAC manifests, the ClusterRole and the
\* ClusterRoleBinding are both among the manifests of the first wrapper
\* document ({name}-1), also when the call writes several wrapper documents.
C24_RbacInFirstWorkloadSet ==
    \A k \in Completed :
        HasCrd(runs[k].input) =>
            /\ Len(runs[k].written) >= 1
            /\ DocHoldsKind(runs[k].written[1], "ClusterRole")
            /\ DocHoldsKind(runs[k].written[1], "ClusterRoleBinding")

\* yaml.dump(mwrs_content, f, default_flow_style=False): the bytes of the lines
\* of the envelope (keys sorted, nested mappings indented by two), the
\* manifestConfigs key line without what follows it, and for every manifest its
\* own yaml.dump plus the "      - " that opens it as an item of
\* spec.manifestWorkTemplate.workload.manifests.  The lines of the feedback
\* configurations and the indentation of a manifest's further lines come on
\* top, so the file is at least this long.
MwrsBytesAtLeast(doc) ==
    LineBytes("apiVersion: " \o doc.content.apiVersion)
    + LineBytes("kind: " \o doc.content.kind)
    + LineBytes("metadata:")
    + LineBytes("  name: " \o doc.content.metadata.name)
    + LineBytes("  namespace: " \o doc.content.metadata.namespace)
    + LineBytes("spec:")
    + LineBytes("  cascadeDeletionPolicy: " \o doc.content.spec.cascadeDeletionPolicy)
    + LineBytes("  manifestWorkTemplate:")
    + Len("    manifestConfigs:")
    + LineBytes("    workload:")
    + LineBytes("      manifests:")
    + SumSeq([j \in 1..Len(DocManifests(doc)) |->
                Len("      - ") + yaml_dump_size(DocManifests(doc)[j])])
    + LineBytes("  placementRefs:")
    + SumSeq([j \in 1..Len(doc.content.spec.placementRefs) |->
                LineBytes("  - name: " \o doc.content.spec.placementRefs[j].name)])

\* C25: when no input manifest alone exceeds MAX_FILE_SIZE, every wrapper file
\* a call writes is, as a whole serialized document (envelope, manifestConfigs
\* and workload manifests), at most MAX_FILE_SIZE = 262144 bytes long.
C25_WholeFileWithinLimit ==
    \A k \in Completed :
        NoneOversized(runs[k].input, MAX_FILE_SIZE) =>
            \A i \in 1..Len(runs[k].written) :
                MwrsBytesAtLeast(runs[k].written[i]) <= MAX_FILE_SIZE

\* C26: the split is greedy: for every two consecutive returned partitions the
\* summed size of the earlier one plus the size of the first manifest of the
\* later one is greater than max_size, so a boundary stands only where the next
\* manifest did not fit.
C26_BoundaryOnlyWhereForced ==
    pc = "done" =>
        \A i \in 1..(Len(split_workloads) - 1) :
            /\ split_workloads[i + 1] # <<>>
            /\ PartitionBytes(split_workloads[i])
                 + yaml_dump_size(split_workloads[i + 1][1]) > max_size

C26_Witness ==
    /\ pc = "done"
    /\ Len(split_workloads) >= 2
    /\ Len(split_workloads[1]) >= 2
    /\ PartitionBytes(split_workloads[1]) < max_size
    /\ yaml_dump_size(split_workloads[2][1]) <= max_size

\* the attempts of the call that ran the given strategy
AttemptsOf(strategy) == {i \in 1..Len(attempts) : attempts[i].strategy = strategy}

\* run_command was given `later` at some point after it was given `earlier`
IssuedAfter(earlier, later) ==
    \E i, j \in 1..Len(commands) :
        i < j /\ commands[i] = earlier /\ commands[j] = later

\* C27: no strategy leaves a temporary artifact behind, whichever way it
\* returns: once load_image_archive has returned the temporary tar archive does
\* not exist; once load_image_platform_pull has run its pull, the removal of
\* the {image}-kind-temp tag is issued after it; once load_image_buildx has
\* returned the temporary Dockerfile does not exist, and when its build
\* succeeded the removal of the {image}-kind image is issued after the build.
C27_NoTemporaryArtifactLeft ==
    /\ AttemptsOf("archive") # {} => TempArchive(image) \notin tmp_files
    /\ \A i \in AttemptsOf("platform_pull") :
           attempts[i].returncodes # <<>> =>
               IssuedAfter(<<"docker", "pull", "--platform", platform, image>>,
                           <<"docker", "rmi", image \o "-kind-temp">>)
    /\ AttemptsOf("buildx") # {} => TempDockerfile \notin tmp_files
    /\ \A i \in AttemptsOf("buildx") :
           (Len(attempts[i].returncodes) >= 2 /\ attempts[i].returncodes[2] = 0) =>
               IssuedAfter(<<"docker", "buildx", "build", "--platform", platform,
                             "--load", "-t", image \o "-kind", "-f", TempDockerfile, ".">>,
                           <<"docker", "rmi", image \o "-kind">>)

\* every strategy ran to its load and failed there: the archive was saved, the
\* image pulled and tagged, the image built
C27_Witness ==
    /\ load_pc = "returned"
    /\ Len(attempts) = 4
    /\ attempts[2].returncodes = <<0, 1>>
    /\ attempts[3].returncodes = <<0, 1>>
    /\ attempts[4].returncodes = <<0, 0, 1>>
    /\ tmp_files = {}

\* an entry that is neither a string nor a mapping, or a mapping without an
\* image
IsInvalidEntry(e) ==
    /\ e.type # "str"
    /\ ~(e.type = "dict" /\ Truthy(Get(e.dict, "image", None)))

\* C28: while load_images_from_config loops, the loaded, failed and skipped
\* entries add up to the entries gone through, and at the end of the loop to
\* the length of the images list; the skipped entries are the invalid ones,
\* which get no cluster check and no load and are not counted as failures (the
\* failures are the failed checks and the failed loads), so that a call whose
\* checks and loads all succeeded returns 0 whatever it skipped.
C28_CountsAddUpAndInvalidIsNoFailure ==
    /\ (config_pc = "loop" /\ yaml_available /\ ~HasNoImagesList(config_file)) =>
           loaded_count + failed_count + skipped_count = item_index - 1
    /\ ReturnedFromLoop =>
           LET list == config_file.value.dict.images.list
               invalid == Len(SelectSeq(list, IsInvalidEntry))
               failed_checks == Len(SelectSeq(cluster_checks, LAMBDA c : ~c.found))
               failed_loads == Len(SelectSeq(loads, LAMBDA l : ~l.ok))
           IN /\ loaded_count + failed_count + skipped_count = Len(list)
              /\ skipped_count = invalid
              /\ Len(cluster_checks) = Len(list) - invalid
              /\ Len(loads) = Len(cluster_checks) - failed_checks
              /\ loaded_count = Len(loads) - failed_loads
              /\ failed_count = failed_checks + failed_loads
              /\ (failed_checks = 0 /\ failed_loads = 0) => config_result = <<0>>

\* a list of an invalid entry and an image that was loaded: the call returns 0
C28_Witness ==
    /\ ReturnedFromLoop
    /\ Len(config_file.value.dict.images.list) = 2
    /\ IsInvalidEntry(config_file.value.dict.images.list[1])
    /\ skipped_count = 1
    /\ loaded_count = 1
    /\ config_result = <<0>>

====
